---- MODULE Spec2Model ----
(***************************************************************************)
(* Model of the TravelBuddy AI planner: the budget and duration validators *)
(* and the itinerary generation of PersonalizedTripPlanner                 *)
(* (travel_planner_agent/travel_planning_agent.py) and the distance based  *)
(* minimum duration of the API server (travel_planner_ui/server/main.py).  *)
(*                                                                         *)
(* Python strings are sequences of one-character strings, so that          *)
(* str.lower(), re.sub and re.findall are computed character by character. *)
(* A Python dict is a function whose DOMAIN is the set of its keys.        *)
(***************************************************************************)
EXTENDS Integers, Sequences, FiniteSets, TLC

VARIABLES
    pc,                  \* position inside generate_personalized_itinerary
    travel_input,        \* the dict passed to generate_personalized_itinerary
    budget_validation,   \* local of generate_personalized_itinerary
    duration_validation, \* local of generate_personalized_itinerary
    chats_started,       \* number of self.model.start_chat() calls made
    messages_sent,       \* number of chat.send_message() calls made
    parts_left,          \* function_call parts still to be answered
    response,            \* the reply object returned by the chat
    raised,              \* the point at which an exception was raised
    result,              \* the value returned to the caller
    call,                \* a direct call of a pure function: name and arguments
    ret,                 \* the value that call returned
    saved_trips,         \* the dict saved_trips of the server, in insertion order
    clock,               \* the time datetime.now() returns
    log,                 \* the save and delete requests answered so far
    travel_agent,        \* the global travel_agent of the server
    agent_calls,         \* number of travel_agent.search_and_respond() calls made
    http_log             \* the HTTP requests issued through aiohttp, in order

vars == <<pc, travel_input, budget_validation, duration_validation,
          chats_started, messages_sent, parts_left, response, raised,
          result, call, ret, saved_trips, clock, log, travel_agent,
          agent_calls, http_log>>

genVars == <<pc, travel_input, budget_validation, duration_validation,
             chats_started, messages_sent, parts_left, response, raised,
             result>>

agentVars == <<travel_agent, agent_calls>>

serverVars == <<saved_trips, clock, log>>

----------------------------------------------------------------------------
(* Bounds of the model *)

\* durations 0..MaxDays are tried next to the fixed long ones
MaxDays == 3

\* function_call parts in one LLM reply
MaxFunctionCalls == 2

\* days in the daily_itinerary of an LLM reply
MaxReplyDays == 2

\* save and delete requests in one behaviour
MaxRequests == 3

----------------------------------------------------------------------------
(* Python values *)

\* the value None
NoneVal == <<"<None>">>

\* isinstance(v, str)
IsStr(v) == v # NoneVal

\* dict.get(key, default)
Get(d, k, default) == IF k \in DOMAIN d THEN d[k] ELSE default

\* d[k] = v
Put(d, k, v) == [x \in (DOMAIN d) \cup {k} |-> IF x = k THEN v ELSE d[x]]

UpperAlpha == <<"A", "B", "C", "D", "E", "F", "G", "H", "I", "J", "K", "L", "M", "N", "O", "P", "Q", "R", "S", "T", "U", "V", "W", "X", "Y", "Z">>

LowerAlpha == <<"a", "b", "c", "d", "e", "f", "g", "h", "i", "j", "k", "l", "m", "n", "o", "p", "q", "r", "s", "t", "u", "v", "w", "x", "y", "z">>

DigitChars == <<"0", "1", "2", "3", "4", "5", "6", "7", "8", "9">>

IsDigit(c) == \E i \in 1..10 : DigitChars[i] = c

DigitVal(c) == (CHOOSE i \in 1..10 : DigitChars[i] = c) - 1

LowerChar(c) ==
    IF \E i \in 1..26 : UpperAlpha[i] = c
    THEN LowerAlpha[CHOOSE i \in 1..26 : UpperAlpha[i] = c]
    ELSE c

\* str.lower()
Lower(s) == [i \in 1..Len(s) |-> LowerChar(s[i])]

\* str(int)
RECURSIVE ToStr(_)
ToStr(n) == IF n < 10 THEN <<DigitChars[n + 1]>>
          ELSE ToStr(n \div 10) \o <<DigitChars[(n % 10) + 1]>>

\* int(digits)
RECURSIVE ToInt(_)
ToInt(ds) == IF ds = <<>> THEN 0
           ELSE 10 * ToInt(SubSeq(ds, 1, Len(ds) - 1)) + DigitVal(ds[Len(ds)])

\* the longest prefix of s made of digits
RECURSIVE DigitPrefix(_)
DigitPrefix(s) ==
    IF s = <<>> \/ ~IsDigit(Head(s)) THEN <<>>
    ELSE <<Head(s)>> \o DigitPrefix(Tail(s))

\* re.findall(r'\d+', s): the maximal runs of digits, left to right
RECURSIVE FindAllDigits(_)
FindAllDigits(s) ==
    IF s = <<>> THEN <<>>
    ELSE IF IsDigit(Head(s))
         THEN LET run == DigitPrefix(s)
              IN  <<run>> \o FindAllDigits(SubSeq(s, Len(run) + 1, Len(s)))
         ELSE FindAllDigits(Tail(s))

\* ''.join(list)
RECURSIVE Join(_)
Join(l) == IF l = <<>> THEN <<>> ELSE Head(l) \o Join(Tail(l))

\* the characters that re.sub(r'[<rupee sign>Rs,\s]', '', s) removes; the
\* rupee sign is written "rupee"
BudgetNoise == {"rupee", "R", "s", ",", " "}

\* re.sub(r'[<rupee sign>Rs,\s]', '', s)
CleanBudget(s) == SelectSeq(s, LAMBDA c : c \notin BudgetNoise)

\* an exception that leaves the statements of a try block
Raise(e) == [raise |-> e]

IsRaise(v) == DOMAIN v = {"raise"}

\* str(v)
PyStr(v) == IF v = NoneVal THEN <<"N", "o", "n", "e">> ELSE v

----------------------------------------------------------------------------
(* String constants of the source *)

STR_self == <<"s", "e", "l", "f">>

STR_Self == <<"S", "e", "l", "f">>

STR_cultural == <<"c", "u", "l", "t", "u", "r", "a", "l">>

STR_devotional == <<"d", "e", "v", "o", "t", "i", "o", "n", "a", "l">>

STR_adventurous == <<"a", "d", "v", "e", "n", "t", "u", "r", "o", "u", "s">>

STR_nightlife == <<"n", "i", "g", "h", "t", "l", "i", "f", "e">>

STR_luxury == <<"l", "u", "x", "u", "r", "y">>

STR_car == <<"c", "a", "r">>

STR_1 == <<"1">>

STR_3_days == <<"3", " ", "d", "a", "y", "s">>

STR_empty == <<>>

----------------------------------------------------------------------------
(* validate_budget *)

\* base_daily_cost
base_daily_cost == 2500

\* theme_multipliers.get(theme, 1.2), in tenths
theme_multiplier10(theme) ==
    CASE theme = STR_devotional  -> 10
      [] theme = STR_cultural    -> 12
      [] theme = STR_adventurous -> 15
      [] theme = STR_nightlife   -> 20
      [] theme = STR_luxury      -> 30
      [] OTHER                   -> 12

\* the transport cost of one day
transport_per_day(travel_mode) ==
    IF Lower(travel_mode) = STR_self THEN 1500 ELSE 3500

\* budget = int(''.join(re.findall(r'\d+', cleaned_budget))) or 0
parse_budget(budget_val) ==
    LET budget_str     == PyStr(budget_val)
        cleaned_budget == CleanBudget(budget_str)
        budget_numbers == FindAllDigits(cleaned_budget)
    IN  IF budget_numbers # <<>> THEN ToInt(Join(budget_numbers)) ELSE 0

\* duration = int(re.findall(r'\d+', duration_str)[0]) or 1
parse_duration(duration_val) ==
    LET duration_numbers == FindAllDigits(PyStr(duration_val))
    IN  IF duration_numbers # <<>> THEN ToInt(duration_numbers[1]) ELSE 1

\* minimum_budget with the theme multiplier applied to the food cost too
minimum_budget_food_scaled(duration, travel_mode, theme) ==
    LET m10                == theme_multiplier10(theme)
        transport_cost     == duration * transport_per_day(travel_mode)
        accommodation_cost == duration * base_daily_cost * 4 * m10
        food_cost          == duration * base_daily_cost * 3 * m10
        activities_cost    == duration * base_daily_cost * 3 * m10
    IN  (transport_cost * 100 + accommodation_cost + food_cost
            + activities_cost) \div 100

\* int(transport_cost + accommodation_cost + food_cost + activities_cost);
\* the float factors 0.4, 0.3 and the multiplier are carried in tenths, so
\* the sum is in hundredths and int() truncates it
minimum_budget(duration, travel_mode, theme) ==
    LET m10                == theme_multiplier10(theme)
        transport_cost     == duration * transport_per_day(travel_mode)
        accommodation_cost == duration * base_daily_cost * 4 * m10
        food_cost          == duration * base_daily_cost * 3 * 10
        activities_cost    == duration * base_daily_cost * 3 * m10
    IN  (transport_cost * 100 + accommodation_cost + food_cost
            + activities_cost) \div 100

\* travel_mode.lower() or theme.lower() raises AttributeError on a value
\* that is not a str
budget_raises(ti) ==
    \/ ~IsStr(Get(ti, "travel_mode", STR_Self))
    \/ ~IsStr(Get(ti, "theme", STR_cultural))

\* is_sufficient with the comparison made strict
is_sufficient_strict(budget, minimum) == budget > minimum

\* if budget >= minimum_budget
is_sufficient(budget, minimum) == budget >= minimum

\* the statements inside the try of validate_budget
validate_budget_try(ti) ==
    IF budget_raises(ti) THEN Raise("AttributeError")
    ELSE
    LET budget      == parse_budget(Get(ti, "budget", <<"0">>))
        travel_mode == Get(ti, "travel_mode", STR_Self)
        theme       == Lower(Get(ti, "theme", STR_cultural))
        duration    == parse_duration(Get(ti, "duration", STR_1))
        minimum     == minimum_budget(duration, travel_mode, theme)
    IN  IF is_sufficient(budget, minimum)
        THEN [status |-> "sufficient", provided_budget |-> budget,
              minimum_required |-> minimum,
              buffer_amount |-> budget - minimum,
              message |-> [buffer |-> budget - minimum]]
        ELSE [status |-> "insufficient", provided_budget |-> budget,
              minimum_required |-> minimum,
              shortfall |-> minimum - budget,
              alert_message |-> [minimum |-> minimum, provided |-> budget,
                                 increase |-> minimum - budget]]

\* except Exception: the error dict
validate_budget(ti) ==
    LET r == validate_budget_try(ti)
    IN  IF IsRaise(r)
        THEN [status |-> "error", message |-> "Budget validation failed",
              minimum_required |-> 10000]
        ELSE r

----------------------------------------------------------------------------
(* validate_duration *)

\* validate_duration with the long-trip warning starting at 30 days
validate_duration_warns_at_30(duration) ==
    LET days == parse_duration(duration)
    IN  IF days < 1
        THEN [status |-> "invalid",
              message |-> "Duration must be at least 1 day",
              recommended_duration |-> 2]
        ELSE IF days >= 30
        THEN [status |-> "warning", message |-> "Long trip detected",
              validated_duration |-> days]
        ELSE [status |-> "valid", validated_duration |-> days,
              message |-> [optimal_days |-> days]]

validate_duration(duration) ==
    LET days == parse_duration(duration)
    IN  IF days < 1
        THEN [status |-> "invalid",
              message |-> "Duration must be at least 1 day",
              recommended_duration |-> 2]
        ELSE IF days > 30
        THEN [status |-> "warning", message |-> "Long trip detected",
              validated_duration |-> days]
        ELSE [status |-> "valid", validated_duration |-> days,
              message |-> [optimal_days |-> days]]

----------------------------------------------------------------------------
(* The helpers of generate_personalized_itinerary *)

EmptyDict == <<>>

\* s.title(): a letter that follows no letter is upper-cased, every other
\* letter is lower-cased
Title(s) ==
    LET IsAlpha(c) == \E i \in 1..26 : LowerAlpha[i] = c \/ UpperAlpha[i] = c
        UpperChar(c) ==
            IF \E i \in 1..26 : LowerAlpha[i] = c
            THEN UpperAlpha[CHOOSE i \in 1..26 : LowerAlpha[i] = c]
            ELSE c
    IN  [i \in 1..Len(s) |->
            IF i = 1 \/ ~IsAlpha(s[i - 1]) THEN UpperChar(s[i])
            ELSE LowerChar(s[i])]

_get_cost_saving_tips(travel_mode, theme) ==
    <<"general">>
    \o (IF Lower(travel_mode) = STR_self THEN <<"self">> ELSE <<"booking">>)
    \o (IF Lower(theme) = STR_devotional THEN <<"devotional">>
        ELSE IF Lower(theme) = STR_adventurous THEN <<"adventurous">>
        ELSE <<>>)

_create_structured_response(response_text, ti) ==
    [status |-> "success",
     trip_overview |->
        [source      |-> Get(ti, "source", STR_empty),
         destination |-> Get(ti, "destination", STR_empty),
         travel_mode |-> Get(ti, "travel_mode", STR_empty),
         theme       |-> Get(ti, "theme", STR_empty),
         duration    |-> Get(ti, "duration", STR_empty),
         budget      |-> Get(ti, "budget", STR_empty)],
     ai_response |-> response_text,
     itinerary |-> <<>>,
     recommendations |->
        [hotels |-> <<>>, restaurants |-> <<>>, activities |-> <<>>,
         local_markets |-> <<>>],
     travel_info |-> EmptyDict,
     weather_info |-> EmptyDict,
     generated_at |-> "now"]

\* the two hand-written days of the fallback plan
fallback_days(destination, theme) ==
    <<[day |-> 1,
       title |-> [text |-> "Arrival and Exploration", of |-> destination],
       activities |-> <<"arrive", "check in", "site visit", "dinner">>],
      [day |-> 2,
       title |-> [text |-> "Full Day Experience", of |-> Title(theme)],
       activities |-> <<"morning activity", "market visit",
                        "sightseeing", "leisure">>]>>

_create_fallback_itinerary(ti, bv, dv) ==
    LET destination == Get(ti, "destination", <<"D", "e", "s", "t", "i", "n", "a", "t", "i", "o", "n">>)
        theme       == Get(ti, "theme", STR_cultural)
        duration    == Get(ti, "duration", STR_3_days)
    IN  [status |-> "fallback",
         message |-> "AI-generated itinerary not available",
         trip_overview |->
            [source      |-> Get(ti, "source", STR_empty),
             destination |-> destination,
             travel_mode |-> Get(ti, "travel_mode", STR_empty),
             theme       |-> theme,
             duration    |-> duration,
             budget      |-> Get(ti, "budget", STR_empty)],
         budget_validation |-> bv,
         duration_validation |-> dv,
         itinerary |-> fallback_days(destination, theme),
         recommendations |->
            [hotels |-> <<destination>>, restaurants |-> <<theme>>,
             activities |-> <<Title(theme)>>,
             local_markets |-> <<destination>>],
         generated_at |-> "now"]

\* fuel_efficiency.get(vehicle_type.lower(), 15)
fuel_efficiency(vehicle_type) ==
    LET v == Lower(vehicle_type)
    IN  CASE v = <<"c", "a", "r">> -> 15
          [] v = <<"b", "i", "k", "e">> -> 40
          [] v = <<"s", "u", "v">> -> 12
          [] v = <<"m", "o", "t", "o", "r", "c", "y", "c", "l", "e">> -> 45
          [] OTHER -> 15

\* the amounts are rounded to the nearest unit as the format :.0f does
\* (no tie occurs for the four efficiencies); fuel_needed is in tenths
_calculate_fuel_costs(source, destination, vehicle_type) ==
    LET estimated_distance == 300
        efficiency == fuel_efficiency(vehicle_type)
        fuel_price == 100
    IN  [estimated_distance |-> estimated_distance,
         fuel_efficiency |-> efficiency,
         fuel_needed |->
            (2 * 10 * estimated_distance + efficiency) \div (2 * efficiency),
         fuel_cost |->
            (2 * estimated_distance * fuel_price + efficiency)
                \div (2 * efficiency),
         total_cost_with_return |->
            (2 * 2 * estimated_distance * fuel_price + efficiency)
                \div (2 * efficiency)]

_enhance_self_mode(itinerary, ti) ==
    LET vehicle_type == Get(ti, "vehicle_type", STR_car)
        source       == Get(ti, "source", STR_empty)
        destination  == Get(ti, "destination", STR_empty)
    IN  Put(itinerary, "self_mode_features",
            [vehicle_type |-> vehicle_type,
             fuel_costs |-> _calculate_fuel_costs(source, destination,
                                                  vehicle_type),
             route_recommendations |-> 4,
             packing_list |-> 5])

_enhance_booking_mode(itinerary, ti) ==
    Put(itinerary, "booking_mode_features",
        [transport_options |-> <<"Flight", "Train", "Bus">>,
         booking_links |-> {"flights", "trains", "buses"},
         travel_tips |-> 4])

----------------------------------------------------------------------------
(* The reply of the LLM and _process_ai_response *)

\* n day entries numbered 1..n
Days(n) == [i \in 1..n |-> [day |-> i]]

\* the dicts a JSON reply can decode to
ReplyDicts ==
    {EmptyDict}
    \cup {[daily_itinerary |-> Days(k)] : k \in 0..MaxReplyDays}
    \cup {[status |-> "success", daily_itinerary |-> Days(k)] :
            k \in 0..MaxReplyDays}

\* the texts of a reply: nothing, prose, text that opens a brace and does
\* not decode, JSON nested too deeply for the decoder, and JSON of a dict
Texts ==
    {[kind |-> "empty"], [kind |-> "prose"], [kind |-> "malformed"],
     [kind |-> "deep"]}
    \cup {[kind |-> "json", value |-> j] : j \in ReplyDicts}

\* reading response.text raises when the reply holds function calls only
Responses ==
    {[text_raises |-> TRUE]}
    \cup {[text_raises |-> FALSE, text |-> x] : x \in Texts}

NoResponse == [text_raises |-> FALSE]

\* the literal "No response generated"
NoResponseGenerated == [kind |-> "prose"]

\* response_text.strip().startswith('{')
StartsWithBrace(text) == text.kind \in {"malformed", "deep", "json"}

\* json.loads(text)
json_loads(text) ==
    CASE text.kind = "json" -> [ok |-> TRUE, value |-> text.value]
      [] text.kind = "deep" -> [ok |-> FALSE, error |-> "RecursionError"]
      [] OTHER              -> [ok |-> FALSE, error |-> "JSONDecodeError"]

\* the part of _process_ai_response after response.text was read
process_body(response_text, ti, bv, dv) ==
    LET decoded == json_loads(response_text)
        parsed ==
            IF StartsWithBrace(response_text)
            THEN IF decoded.ok THEN decoded.value
                 ELSE IF decoded.error = "JSONDecodeError"
                 THEN _create_structured_response(response_text, ti)
                 ELSE Raise(decoded.error)
            ELSE _create_structured_response(response_text, ti)
        travel_mode == Get(ti, "travel_mode", STR_Self)
    IN  IF IsRaise(parsed) THEN parsed
        ELSE LET validated == Put(Put(parsed, "budget_validation", bv),
                                  "duration_validation", dv)
             IN  IF ~IsStr(travel_mode) THEN Raise("AttributeError")
                 ELSE IF Lower(travel_mode) = STR_self
                 THEN IF ~IsStr(Get(ti, "vehicle_type", STR_car))
                      THEN Raise("AttributeError")
                      ELSE _enhance_self_mode(validated, ti)
                 ELSE _enhance_booking_mode(validated, ti)

\* _process_ai_response without the outer except: the exception leaves it
_process_ai_response_uncaught(resp, ti, bv, dv) ==
    IF resp.text_raises
    THEN _create_fallback_itinerary(ti, bv, dv)
    ELSE LET response_text == IF resp.text.kind # "empty" THEN resp.text
                              ELSE NoResponseGenerated
         IN  process_body(response_text, ti, bv, dv)

_process_ai_response(resp, ti, bv, dv) ==
    IF resp.text_raises
    THEN _create_fallback_itinerary(ti, bv, dv)
    ELSE LET response_text == IF resp.text.kind # "empty" THEN resp.text
                              ELSE NoResponseGenerated
             itinerary == process_body(response_text, ti, bv, dv)
         IN  IF IsRaise(itinerary)
             THEN _create_fallback_itinerary(ti, bv, dv)
             ELSE itinerary

----------------------------------------------------------------------------
(* calculate_minimum_duration *)

\* the rows of the distance matrix for ten of its places: every entry the
\* matrix has between two of them
distances == {
    <<<<"g", "o", "a">>, <<"m", "u", "m", "b", "a", "i">>, 450>>,
    <<<<"g", "o", "a">>, <<"b", "i", "h", "a", "r">>, 1500>>,
    <<<<"g", "o", "a">>, <<"a", "s", "s", "a", "m">>, 2000>>,
    <<<<"g", "o", "a">>, <<"s", "i", "k", "k", "i", "m">>, 1800>>,
    <<<<"g", "o", "a">>, <<"g", "u", "j", "a", "r", "a", "t">>, 700>>,
    <<<<"g", "o", "a">>, <<"o", "d", "i", "s", "h", "a">>, 700>>,
    <<<<"g", "o", "a">>, <<"k", "e", "r", "a", "l", "a">>, 600>>,
    <<<<"m", "u", "m", "b", "a", "i">>, <<"g", "o", "a">>, 450>>,
    <<<<"m", "u", "m", "b", "a", "i">>, <<"b", "i", "h", "a", "r">>, 1300>>,
    <<<<"m", "u", "m", "b", "a", "i">>, <<"a", "s", "s", "a", "m">>, 1800>>,
    <<<<"m", "u", "m", "b", "a", "i">>, <<"s", "i", "k", "k", "i", "m">>, 1600>>,
    <<<<"m", "u", "m", "b", "a", "i">>, <<"g", "u", "j", "a", "r", "a", "t">>, 500>>,
    <<<<"m", "u", "m", "b", "a", "i">>, <<"o", "d", "i", "s", "h", "a">>, 800>>,
    <<<<"m", "u", "m", "b", "a", "i">>, <<"k", "e", "r", "a", "l", "a">>, 1200>>,
    <<<<"b", "i", "h", "a", "r">>, <<"g", "o", "a">>, 1500>>,
    <<<<"b", "i", "h", "a", "r">>, <<"m", "u", "m", "b", "a", "i">>, 1300>>,
    <<<<"b", "i", "h", "a", "r">>, <<"a", "s", "s", "a", "m">>, 600>>,
    <<<<"b", "i", "h", "a", "r">>, <<"s", "i", "k", "k", "i", "m">>, 400>>,
    <<<<"b", "i", "h", "a", "r">>, <<"g", "u", "j", "a", "r", "a", "t">>, 1300>>,
    <<<<"b", "i", "h", "a", "r">>, <<"o", "d", "i", "s", "h", "a">>, 600>>,
    <<<<"b", "i", "h", "a", "r">>, <<"k", "e", "r", "a", "l", "a">>, 1900>>,
    <<<<"a", "s", "s", "a", "m">>, <<"g", "o", "a">>, 2000>>,
    <<<<"a", "s", "s", "a", "m">>, <<"m", "u", "m", "b", "a", "i">>, 1800>>,
    <<<<"a", "s", "s", "a", "m">>, <<"b", "i", "h", "a", "r">>, 600>>,
    <<<<"a", "s", "s", "a", "m">>, <<"s", "i", "k", "k", "i", "m">>, 300>>,
    <<<<"a", "s", "s", "a", "m">>, <<"g", "u", "j", "a", "r", "a", "t">>, 1800>>,
    <<<<"a", "s", "s", "a", "m">>, <<"o", "d", "i", "s", "h", "a">>, 600>>,
    <<<<"a", "s", "s", "a", "m">>, <<"k", "e", "r", "a", "l", "a">>, 2400>>,
    <<<<"s", "i", "k", "k", "i", "m">>, <<"g", "o", "a">>, 1800>>,
    <<<<"s", "i", "k", "k", "i", "m">>, <<"m", "u", "m", "b", "a", "i">>, 1600>>,
    <<<<"s", "i", "k", "k", "i", "m">>, <<"b", "i", "h", "a", "r">>, 400>>,
    <<<<"s", "i", "k", "k", "i", "m">>, <<"a", "s", "s", "a", "m">>, 300>>,
    <<<<"s", "i", "k", "k", "i", "m">>, <<"g", "u", "j", "a", "r", "a", "t">>, 1600>>,
    <<<<"s", "i", "k", "k", "i", "m">>, <<"o", "d", "i", "s", "h", "a">>, 600>>,
    <<<<"s", "i", "k", "k", "i", "m">>, <<"k", "e", "r", "a", "l", "a">>, 2200>>,
    <<<<"c", "h", "e", "n", "n", "a", "i">>, <<"g", "o", "a">>, 900>>,
    <<<<"c", "h", "e", "n", "n", "a", "i">>, <<"m", "u", "m", "b", "a", "i">>, 1100>>,
    <<<<"c", "h", "e", "n", "n", "a", "i">>, <<"p", "u", "n", "e">>, 1000>>,
    <<<<"c", "h", "e", "n", "n", "a", "i">>, <<"k", "e", "r", "a", "l", "a">>, 650>>,
    <<<<"g", "u", "j", "a", "r", "a", "t">>, <<"g", "o", "a">>, 700>>,
    <<<<"g", "u", "j", "a", "r", "a", "t">>, <<"m", "u", "m", "b", "a", "i">>, 500>>,
    <<<<"g", "u", "j", "a", "r", "a", "t">>, <<"b", "i", "h", "a", "r">>, 1300>>,
    <<<<"g", "u", "j", "a", "r", "a", "t">>, <<"a", "s", "s", "a", "m">>, 1800>>,
    <<<<"g", "u", "j", "a", "r", "a", "t">>, <<"s", "i", "k", "k", "i", "m">>, 1600>>,
    <<<<"g", "u", "j", "a", "r", "a", "t">>, <<"o", "d", "i", "s", "h", "a">>, 900>>,
    <<<<"g", "u", "j", "a", "r", "a", "t">>, <<"k", "e", "r", "a", "l", "a">>, 1500>>,
    <<<<"o", "d", "i", "s", "h", "a">>, <<"g", "o", "a">>, 700>>,
    <<<<"o", "d", "i", "s", "h", "a">>, <<"m", "u", "m", "b", "a", "i">>, 800>>,
    <<<<"o", "d", "i", "s", "h", "a">>, <<"b", "i", "h", "a", "r">>, 600>>,
    <<<<"o", "d", "i", "s", "h", "a">>, <<"a", "s", "s", "a", "m">>, 600>>,
    <<<<"o", "d", "i", "s", "h", "a">>, <<"s", "i", "k", "k", "i", "m">>, 600>>,
    <<<<"o", "d", "i", "s", "h", "a">>, <<"g", "u", "j", "a", "r", "a", "t">>, 900>>,
    <<<<"o", "d", "i", "s", "h", "a">>, <<"k", "e", "r", "a", "l", "a">>, 1200>>,
    <<<<"k", "e", "r", "a", "l", "a">>, <<"g", "o", "a">>, 600>>,
    <<<<"k", "e", "r", "a", "l", "a">>, <<"m", "u", "m", "b", "a", "i">>, 1200>>,
    <<<<"k", "e", "r", "a", "l", "a">>, <<"b", "i", "h", "a", "r">>, 1900>>,
    <<<<"k", "e", "r", "a", "l", "a">>, <<"a", "s", "s", "a", "m">>, 2400>>,
    <<<<"k", "e", "r", "a", "l", "a">>, <<"s", "i", "k", "k", "i", "m">>, 2200>>,
    <<<<"k", "e", "r", "a", "l", "a">>, <<"g", "u", "j", "a", "r", "a", "t">>, 1500>>,
    <<<<"k", "e", "r", "a", "l", "a">>, <<"o", "d", "i", "s", "h", "a">>, 1200>>
    }

\* distances.get(a, {}).get(b), None being 0
distances_get(a, b) ==
    IF \E e \in distances : e[1] = a /\ e[2] = b
    THEN (CHOOSE e \in distances : e[1] = a /\ e[2] = b)[3]
    ELSE 0

\* x or y
Or(x, y) == IF x # 0 THEN x ELSE y

\* the days for a distance, by travel mode
duration_for(distance, travel_mode) ==
    IF travel_mode = STR_Self
    THEN IF distance <= 300 THEN 2
         ELSE IF distance <= 800 THEN 3
         ELSE IF distance <= 1500 THEN 4
         ELSE 5
    ELSE IF distance <= 500 THEN 2
         ELSE IF distance <= 1200 THEN 3
         ELSE 4

\* lookup_distance without the lookup in the other direction
lookup_distance_one_way(source_key, dest_key) ==
    Or(distances_get(source_key, dest_key), 300)

\* the distance looked up for a pair of lower-cased keys
lookup_distance(source_key, dest_key) ==
    Or(Or(distances_get(source_key, dest_key),
          distances_get(dest_key, source_key)), 300)

calculate_minimum_duration(source, destination, travel_mode) ==
    LET source_key == Lower(source)
        dest_key   == Lower(destination)
        distance   == lookup_distance(source_key, dest_key)
    IN  duration_for(distance, travel_mode)

----------------------------------------------------------------------------
(* The inputs tried *)

\* the day counts written into duration strings
DayValues == (0..MaxDays) \cup {15, 30, 31, 45}

\* "<n> days" and "<n>" for each day count, and strings of other shapes
DurationInputs ==
    {ToStr(n) \o <<" ", "d", "a", "y", "s">> : n \in DayValues}
    \cup {ToStr(n) : n \in DayValues}
    \cup {<<"2", "0", "d", "a", "y", "s">>, <<"2", "-", "3", " ", "d", "a", "y", "s">>, <<"a", " ", "w", "e", "e", "k">>, <<>>, <<"-", "5", " ", "d", "a", "y", "s">>, <<"d", "a", "y", " ", "3", " ", "o", "f", " ", "7">>, <<"0", "0", "7", " ", "d", "a", "y", "s">>}

BudgetStrings ==
    {<<"2", "0", "0", "0", "0">>,
     <<"rupee", "4", ",", "0", "0", "0">>,
     <<"3", "9", "9", "9">>,
     <<"R", "s", " ", "9", "5", "0", "0">>,
     <<"9", ",", "4", "9", "9">>,
     <<"6", "0", "0", "0", "0">>,
     <<"1", ",", "0", "0", ",", "0", "0", "0">>,
     <<"a", "b", "c">>,
     <<>>,
     <<"4", "0", "0", "0", ".", "5", "0">>}

ModeStrings == {<<"S", "e", "l", "f">>, <<"s", "e", "l", "f">>, <<"S", "E", "L", "F">>, <<"B", "o", "o", "k", "i", "n", "g">>, <<"f", "l", "i", "g", "h", "t">>}

ThemeStrings ==
    {<<"d", "e", "v", "o", "t", "i", "o", "n", "a", "l">>,
     <<"c", "u", "l", "t", "u", "r", "a", "l">>,
     <<"a", "d", "v", "e", "n", "t", "u", "r", "o", "u", "s">>,
     <<"n", "i", "g", "h", "t", "l", "i", "f", "e">>,
     <<"l", "u", "x", "u", "r", "y">>,
     <<"L", "u", "x", "u", "r", "y">>,
     <<"N", "I", "G", "H", "T", "L", "I", "F", "E">>,
     <<"A", "d", "v", "e", "n", "t", "u", "r", "e">>,
     <<"b", "e", "a", "c", "h">>}

\* the dicts validate_budget is called with: every key present, or some
\* keys missing, or a theme or travel mode that is not a str
BudgetInputs ==
    {[budget |-> b, travel_mode |-> m, theme |-> th, duration |-> d] :
        b \in BudgetStrings, m \in ModeStrings \cup {NoneVal},
        th \in ThemeStrings \cup {NoneVal},
        d \in {ToStr(n) \o <<" ", "d", "a", "y", "s">> : n \in DayValues}}
    \cup {[budget |-> b, duration |-> d] :
            b \in BudgetStrings, d \in DurationInputs}
    \cup {[theme |-> th, travel_mode |-> m] :
            th \in ThemeStrings, m \in ModeStrings}
    \cup {[budget |-> NoneVal, duration |-> NoneVal]}

\* the dicts generate_personalized_itinerary is called with: str values,
\* as the API server passes them; vehicle_type is optional and may be None
TravelInputs ==
    {[source |-> <<"G", "o", "a">>, destination |-> <<"P", "u", "n", "e">>,
      travel_mode |-> m, budget |-> b, theme |-> th, duration |-> d] :
        m \in {STR_Self, <<"B", "o", "o", "k", "i", "n", "g">>},
        b \in {<<"2", "0", "0", "0", "0">>, <<"rupee", "4", ",", "0", "0", "0">>, <<"a", "b", "c">>},
        th \in {STR_devotional, <<"A", "d", "v", "e", "n", "t", "u", "r", "e">>},
        d \in {ToStr(n) \o <<" ", "d", "a", "y", "s">> : n \in (0..MaxDays) \cup {31}}}
    \cup {[source |-> <<"G", "o", "a">>, destination |-> <<"P", "u", "n", "e">>,
           travel_mode |-> STR_self, budget |-> <<"6", "0", "0", "0", "0">>,
           theme |-> STR_cultural, duration |-> <<"2", " ", "d", "a", "y", "s">>,
           vehicle_type |-> v] : v \in {<<"b", "i", "k", "e">>, NoneVal}}
    \cup {EmptyDict,
          [duration |-> <<"1", "5", " ", "d", "a", "y", "s">>, budget |-> <<"2", "0", "0", "0", "0">>]}

PlaceStrings ==
    LET names == {e[1] : e \in distances} \cup {e[2] : e \in distances}
    IN  names \cup {Title(n) : n \in names} \cup {<<"M", "U", "M", "B", "A", "I">>, <<"M", "a", "r", "s">>}

DistanceModes == {STR_Self, STR_self, <<"B", "o", "o", "k", "i", "n", "g">>, <<"F", "l", "i", "g", "h", "t">>}

----------------------------------------------------------------------------
(* get_feasible_durations *)

\* all_durations
all_durations ==
    <<[label |-> "1-2 days", value |-> "2 days",  days |-> 2],
      [label |-> "3-4 days", value |-> "3 days",  days |-> 3],
      [label |-> "5-7 days", value |-> "7 days",  days |-> 7],
      [label |-> "1 week+",  value |-> "10 days", days |-> 10]>>

\* is_feasible with the comparison made strict
is_feasible_strict(duration, min_duration) == duration.days > min_duration

\* if duration["days"] >= min_duration
is_feasible(duration, min_duration) == duration.days >= min_duration

get_feasible_durations(source, destination, travel_mode) ==
    LET min_duration ==
            calculate_minimum_duration(source, destination, travel_mode)
    IN  SelectSeq(all_durations, LAMBDA d : is_feasible(d, min_duration))

----------------------------------------------------------------------------
(* The saved trips of the server: save_trip, get_saved_trips, delete_trip *)

\* an ordered dict is the sequence of its items, each key once
dict_has(d, k) == \E i \in 1..Len(d) : d[i].key = k

\* d[k] = v: a new key goes to the end, a key of the dict keeps its place
dict_set(d, k, v) ==
    IF dict_has(d, k)
    THEN [i \in 1..Len(d) |-> IF d[i].key = k THEN [key |-> k, value |-> v]
                              ELSE d[i]]
    ELSE Append(d, [key |-> k, value |-> v])

\* dict_del dropping the oldest item instead of the item of the key
dict_del_oldest(d, k) == Tail(d)

\* del d[k]
dict_del(d, k) == SelectSeq(d, LAMBDA item : item.key # k)

\* list(d.values())
dict_values(d) == [i \in 1..Len(d) |-> d[i].value]

\* an HTTP answer: a returned body, or a raised HTTPException
HttpOk(body) == [status_code |-> 200, body |-> body]

HttpError(code, detail) == [status_code |-> code, detail |-> detail]

\* f"trip_{datetime.now().timestamp()}"
generated_trip_id(now) == <<"t", "r", "i", "p", "_">> \o ToStr(now)

\* request.id or f"trip_{...}": None and '' give a generated id
trip_id_of(request, now) ==
    IF request.id # NoneVal /\ request.id # STR_empty THEN request.id
    ELSE generated_trip_id(now)

\* trip_record filled with the id of the request instead of trip_id
trip_record_request_id(trip_id, request, now) ==
    [id |-> request.id, name |-> request.name,
     trip_data |-> request.trip_data,
     created_at |-> now, updated_at |-> now]

\* the dict stored by save_trip
trip_record(trip_id, request, now) ==
    [id |-> trip_id, name |-> request.name,
     trip_data |-> request.trip_data,
     created_at |-> now, updated_at |-> now]

\* the SaveTripRequest bodies tried
SaveTripRequests ==
    {[id |-> i, name |-> p[1], trip_data |-> p[2]] :
        i \in {NoneVal, STR_empty, <<"a">>, <<"t", "r", "i", "p", "_", "1">>},
        p \in {<<<<"G", "o", "a">>, [days |-> 2]>>,
               <<<<"P", "u", "n", "e">>, [days |-> 3]>>}}

----------------------------------------------------------------------------
(* The state machine *)

\* the value of travel_agent when no agent was initialised
NoAgent == "None"
NoCall == [fn |-> "none"]

Init ==
    /\ pc = "idle"
    /\ travel_input = EmptyDict
    /\ budget_validation = EmptyDict
    /\ duration_validation = EmptyDict
    /\ chats_started = 0
    /\ messages_sent = 0
    /\ parts_left = 0
    /\ response = NoResponse
    /\ raised = "nothing"
    /\ result = EmptyDict
    /\ call = NoCall
    /\ ret = EmptyDict
    /\ saved_trips = <<>>
    /\ clock = 0
    /\ log = <<>>
    /\ travel_agent \in {NoAgent, "GeminiTravelPlanningAgent"}
    /\ agent_calls = 0
    /\ http_log = <<>>

(* generate_personalized_itinerary, one action per stretch between the
   calls of the LLM *)

\* the entry: the inputs are read and both validators run
Generate(ti) ==
    /\ pc = "idle"
    /\ call = NoCall
    /\ travel_input' = ti
    /\ budget_validation' = validate_budget(ti)
    /\ duration_validation' =
            validate_duration(Get(ti, "duration", STR_3_days))
    /\ call' = [fn |-> "generate_personalized_itinerary"]
    /\ pc' = "validated"
    /\ UNCHANGED <<http_log, agentVars, serverVars, chats_started, messages_sent, parts_left, response,
                   raised, result, ret>>

\* the value of the early return
budget_insufficient_result(ti, bv, dv) ==
    [status |-> "budget_insufficient",
     budget_validation |-> bv,
     duration_validation |-> dv,
     alert |-> bv.alert_message,
     recommendations |->
        [minimum_budget |-> bv.minimum_required,
         cost_saving_tips |->
            _get_cost_saving_tips(Get(ti, "travel_mode", STR_Self),
                                  Get(ti, "theme", STR_cultural))]]

\* returns_early testing for the wrong status
returns_early_on_error(bv) == bv.status = "error"

\* the condition of the early return
returns_early(bv) == bv.status = "insufficient"

ReturnBudgetInsufficient ==
    /\ pc = "validated"
    /\ returns_early(budget_validation)
    /\ result' = budget_insufficient_result(travel_input, budget_validation,
                                            duration_validation)
    /\ pc' = "done"
    /\ UNCHANGED <<http_log, agentVars, serverVars, travel_input, budget_validation, duration_validation,
                   chats_started, messages_sent, parts_left, response,
                   raised, call, ret>>

\* chat = self.model.start_chat(), which may raise
StartChat ==
    /\ pc = "validated"
    /\ ~returns_early(budget_validation)
    /\ chats_started' = chats_started + 1
    /\ \/ pc' = "send" /\ UNCHANGED raised
       \/ pc' = "except" /\ raised' = "start_chat"
    /\ UNCHANGED <<http_log, agentVars, serverVars, travel_input, budget_validation, duration_validation,
                   messages_sent, parts_left, response, result, call, ret>>

\* the prompt is built and chat.send_message(prompt) is called; it raises
\* or returns a reply with some function_call parts
SendMessage ==
    /\ pc = "send"
    /\ messages_sent' = messages_sent + 1
    /\ \/ /\ raised' = "send_message"
          /\ pc' = "except"
          /\ UNCHANGED <<response, parts_left>>
       \/ \E r \in Responses, n \in 0..MaxFunctionCalls :
            /\ response' = r
            /\ parts_left' = n
            /\ pc' = IF n > 0 THEN "parts" ELSE "process"
            /\ UNCHANGED raised
    /\ UNCHANGED <<http_log, agentVars, serverVars, travel_input, budget_validation, duration_validation,
                   chats_started, result, call, ret>>

\* one function_call part: the function runs and its result is sent back
\* with chat.send_message([function_response]), which raises or replies
AnswerFunctionCall ==
    /\ pc = "parts"
    /\ parts_left > 0
    /\ messages_sent' = messages_sent + 1
    /\ \/ /\ raised' = "send_message"
          /\ pc' = "except"
          /\ UNCHANGED <<response, parts_left>>
       \/ \E r \in Responses :
            /\ response' = r
            /\ parts_left' = parts_left - 1
            /\ pc' = IF parts_left > 1 THEN "parts" ELSE "process"
            /\ UNCHANGED raised
    /\ UNCHANGED <<http_log, agentVars, serverVars, travel_input, budget_validation, duration_validation,
                   chats_started, result, call, ret>>

\* what _process_ai_response caught, if anything
process_raised(resp, ti, bv, dv) ==
    IF resp.text_raises THEN "response_text"
    ELSE IF IsRaise(process_body(IF resp.text.kind # "empty" THEN resp.text
                                 ELSE NoResponseGenerated, ti, bv, dv))
    THEN "processing"
    ELSE "nothing"

\* final_itinerary = await self._process_ai_response(...); return it
ProcessResponse ==
    /\ pc = "process"
    /\ result' = _process_ai_response(response, travel_input,
                                      budget_validation, duration_validation)
    /\ raised' = process_raised(response, travel_input, budget_validation,
                                duration_validation)
    /\ pc' = "done"
    /\ UNCHANGED <<http_log, agentVars, serverVars, travel_input, budget_validation, duration_validation,
                   chats_started, messages_sent, parts_left, response,
                   call, ret>>

\* except Exception: return self._create_fallback_itinerary(...)
ExceptFallback ==
    /\ pc = "except"
    /\ result' = _create_fallback_itinerary(travel_input, budget_validation,
                                            duration_validation)
    /\ pc' = "done"
    /\ UNCHANGED <<http_log, agentVars, serverVars, travel_input, budget_validation, duration_validation,
                   chats_started, messages_sent, parts_left, response,
                   raised, call, ret>>

(* direct calls of the pure functions, one call per behaviour *)

CallValidateBudget ==
    /\ pc = "idle"
    /\ call = NoCall
    /\ \E ti \in BudgetInputs :
        /\ call' = [fn |-> "validate_budget", travel_input |-> ti]
        /\ ret' = validate_budget(ti)
    /\ UNCHANGED <<genVars, serverVars, agentVars, http_log>>

CallValidateDuration ==
    /\ pc = "idle"
    /\ call = NoCall
    /\ \E d \in DurationInputs :
        /\ call' = [fn |-> "validate_duration", duration |-> d]
        /\ ret' = validate_duration(d)
    /\ UNCHANGED <<genVars, serverVars, agentVars, http_log>>

CallCreateFallback ==
    /\ pc = "idle"
    /\ call = NoCall
    /\ \E ti \in TravelInputs :
        /\ call' = [fn |-> "_create_fallback_itinerary", travel_input |-> ti]
        /\ ret' = _create_fallback_itinerary(ti, validate_budget(ti),
                    validate_duration(Get(ti, "duration", STR_3_days)))
    /\ UNCHANGED <<genVars, serverVars, agentVars, http_log>>

CallCreateStructured ==
    /\ pc = "idle"
    /\ call = NoCall
    /\ \E ti \in TravelInputs, x \in Texts :
        /\ call' = [fn |-> "_create_structured_response",
                    response_text |-> x, travel_input |-> ti]
        /\ ret' = _create_structured_response(x, ti)
    /\ UNCHANGED <<genVars, serverVars, agentVars, http_log>>

CallCalculateMinimumDuration ==
    /\ pc = "idle"
    /\ call = NoCall
    /\ \E s \in PlaceStrings, d \in PlaceStrings, m \in DistanceModes :
        /\ call' = [fn |-> "calculate_minimum_duration", source |-> s,
                    destination |-> d, travel_mode |-> m]
        /\ ret' = calculate_minimum_duration(s, d, m)
    /\ UNCHANGED <<genVars, serverVars, agentVars, http_log>>

CallGetFeasibleDurations ==
    /\ pc = "idle"
    /\ call = NoCall
    /\ \E s \in PlaceStrings, d \in PlaceStrings, m \in DistanceModes :
        /\ call' = [fn |-> "get_feasible_durations", source |-> s,
                    destination |-> d, travel_mode |-> m]
        /\ ret' = get_feasible_durations(s, d, m)
    /\ UNCHANGED <<genVars, serverVars, agentVars, http_log>>

(* POST /api/plan-trip of the server *)

\* a Python value that is a str, and one that is a dict
PyStrValue(text) == [py |-> "str", text |-> text]
PyDictValue(value) == [py |-> "dict", value |-> value]

\* None where a dict is expected
PyNone == [py_none |-> TRUE]
IsNone(v) == "py_none" \in DOMAIN v

STR_Unknown == <<"U", "n", "k", "n", "o", "w", "n">>
STR_Adventure == <<"A", "d", "v", "e", "n", "t", "u", "r", "e">>
STR_rupee_15000 == <<"rupee", "1", "5", "0", "0", "0">>

\* TripRequest(...).dict()
TripRequestDict(travel_mode, budget, theme, duration) ==
    [source |-> <<"M", "u", "m", "b", "a", "i">>, destination |-> <<"G", "o", "a">>,
     travel_mode |-> travel_mode, budget |-> budget, theme |-> theme,
     duration |-> duration, start_date |-> NoneVal, travelers_count |-> 2]

\* the replies of the LLM the server is checked with: those of Responses,
\* JSON replies that carry an agent_response key (a str that is JSON, a
\* str that is not, a str nested too deeply for the decoder, dicts with
\* and without a trip_overview), and JSON replies with the status 'error'
\* and with a sources key
ServerResponses ==
    Responses
    \cup {[text_raises |-> FALSE,
           text |-> [kind |-> "json", value |-> [status |-> st, agent_response |-> a]]] :
            st \in {"success", "partial"},
            a \in {PyStrValue([kind |-> "json",
                               value |-> PyDictValue([trip_overview |-> EmptyDict])]),
                   PyStrValue([kind |-> "json", value |-> PyDictValue([note |-> 1])]),
                   PyStrValue([kind |-> "prose"]),
                   PyStrValue([kind |-> "deep"]),
                   PyDictValue([trip_overview |-> EmptyDict]),
                   PyDictValue([note |-> 1]),
                   PyDictValue(EmptyDict)}}
    \cup {[text_raises |-> FALSE, text |-> [kind |-> "json", value |-> j]] :
            j \in {[status |-> "error", daily_itinerary |-> Days(1)],
                   [status |-> "success", sources |-> <<"web search">>],
                   [status |-> "error", sources |-> <<"web search">>,
                    daily_itinerary |-> Days(1)]}}

\* what awaiting travel_agent.search_and_respond(user_input) gives: the
\* results of generate_personalized_itinerary, called with the dict of
\* defaults for a str input, or an exception that leaves it
search_and_respond(user_input) ==
    LET ti == IF user_input.py = "str"
              THEN [source |-> <<"M", "u", "m", "b", "a", "i">>,
                    destination |-> <<"G", "o", "a">>,
                    travel_mode |-> STR_Self, budget |-> <<"2", "0", "0", "0", "0">>,
                    theme |-> STR_cultural, duration |-> STR_3_days,
                    vehicle_type |-> STR_car]
              ELSE user_input.value
        bv == validate_budget(ti)
        dv == validate_duration(Get(ti, "duration", STR_3_days))
    IN  IF returns_early(bv)
        THEN {budget_insufficient_result(ti, bv, dv), Raise("Exception")}
        ELSE {_process_ai_response(r, ti, bv, dv) : r \in ServerResponses}
             \cup {_create_fallback_itinerary(ti, bv, dv), Raise("Exception")}

\* user_input.get(key, default): a str has no get
user_input_get(user_input, key, default) ==
    IF user_input.py = "str" THEN Raise("AttributeError")
    ELSE Get(user_input.value, key, default)

\* get_transportation_details: it catches what its AI step raises and falls
\* back to its tables; the details are kept as the mode they are made for
get_transportation_details(user_input) ==
    [details_for |-> Get(user_input.value, "travel_mode", STR_Self)]

\* the first block of plan_trip: an agent_response that is a str is decoded
parse_agent_response(backend_result, user_input) ==
    IF ~("agent_response" \in DOMAIN backend_result) THEN backend_result
    ELSE IF backend_result.agent_response.py # "str" THEN backend_result
    ELSE LET decoded == json_loads(backend_result.agent_response.text)
         IN  IF decoded.ok
             THEN [backend_result EXCEPT !.agent_response = decoded.value]
             ELSE IF decoded.error # "JSONDecodeError"
             THEN Raise(decoded.error)
             ELSE IF user_input.py = "str" THEN Raise("AttributeError")
             ELSE [backend_result EXCEPT !.agent_response = PyDictValue(
                    [raw_response |-> backend_result.agent_response.text,
                     parsing_error |-> decoded.error,
                     trip_overview |->
                        [source |-> user_input_get(user_input, "source", STR_Unknown),
                         destination |-> user_input_get(user_input, "destination", STR_Unknown),
                         travel_mode |-> user_input_get(user_input, "travel_mode", STR_Unknown),
                         budget |-> user_input_get(user_input, "budget", STR_Unknown),
                         theme |-> user_input_get(user_input, "theme", STR_Unknown),
                         duration |-> user_input_get(user_input, "duration", STR_Unknown),
                         budget_status |-> "unknown"],
                     error |-> "Failed to parse AI response"])]

\* the second block of plan_trip: a success without a trip_overview gets a
\* fallback structure
validate_response_structure(backend_result, user_input) ==
    IF ~(/\ Get(backend_result, "status", "") = "success"
         /\ "agent_response" \in DOMAIN backend_result
         /\ DOMAIN backend_result.agent_response.value # {})
    THEN backend_result
    ELSE IF "trip_overview" \in DOMAIN backend_result.agent_response.value
    THEN backend_result
    ELSE IF user_input.py = "str" THEN Raise("AttributeError")
    ELSE [backend_result EXCEPT !.agent_response = PyDictValue(
            [trip_overview |->
                [source |-> user_input_get(user_input, "source", STR_Unknown),
                 destination |-> user_input_get(user_input, "destination", STR_Unknown),
                 travel_mode |-> user_input_get(user_input, "travel_mode", STR_Self),
                 budget |-> user_input_get(user_input, "budget", STR_rupee_15000),
                 theme |-> user_input_get(user_input, "theme", STR_Adventure),
                 duration |-> user_input_get(user_input, "duration", STR_3_days),
                 budget_status |-> "sufficient"],
             transportation |->
                [mode |-> user_input_get(user_input, "travel_mode", STR_Self),
                 details |->
                    IF user_input_get(user_input, "travel_mode", NoneVal) # STR_empty
                       /\ user_input_get(user_input, "travel_mode", NoneVal) # NoneVal
                    THEN get_transportation_details(user_input)
                    ELSE EmptyDict],
             budget_breakdown |->
                [total_budget |-> user_input_get(user_input, "budget", STR_rupee_15000)],
             daily_itinerary |-> <<>>,
             sources |-> <<"Fallback response - AI parsing failed">>,
             parsing_error |-> "AI response structure was invalid",
             raw_ai_response |-> backend_result.agent_response])]

\* frontend_sources naming the agent when the result holds an agent_response
frontend_sources_of_response(backend_result) ==
    IF "agent_response" \in DOMAIN backend_result
    THEN <<"agent response">>
    ELSE Get(backend_result, "sources", <<"AI Travel Planning System">>)

\* backend_result.get('sources', ["AI Travel Planning System"])
frontend_sources(backend_result) ==
    Get(backend_result, "sources", <<"AI Travel Planning System">>)

\* resolve_budget_status trusting every status the backend names
resolve_budget_status_trusting(validation) ==
    Get(validation, "status", "sufficient")

\* budget_status as transform_backend_response_to_frontend_format settles it
resolve_budget_status(validation) ==
    LET budget_status == Get(validation, "status", "sufficient")
    IN  IF budget_status \notin {"sufficient", "insufficient"}
        THEN IF Get(validation, "provided_budget", 0)
                    >= Get(validation, "minimum_required", 0)
             THEN "sufficient" ELSE "insufficient"
        ELSE budget_status

\* the fields of the output that depend on the arguments; the rest of the
\* output is fixed text around destination and theme
transform_backend_response_to_frontend_format(backend_result, user_input) ==
    LET is_dict == user_input.py = "dict"
        field(key, default) ==
            IF is_dict THEN Get(user_input.value, key, default) ELSE default
        source      == field("source", STR_Unknown)
        destination == field("destination", STR_Unknown)
        travel_mode == field("travel_mode", STR_Self)
        budget      == field("budget", STR_rupee_15000)
        theme       == field("theme", STR_Adventure)
        duration    == field("duration", STR_3_days)
        validation == Get(backend_result, "budget_validation", EmptyDict)
    IN  IF IsNone(validation) THEN Raise("AttributeError")
        ELSE LET budget_status == resolve_budget_status(validation)
                 cost == <<"rupee">>
                         \o ToStr(Get(validation, "minimum_required", 15000))
             IN  [trip_overview |->
                    [source |-> source, destination |-> destination,
                     travel_mode |-> travel_mode, budget |-> budget,
                     theme |-> theme, duration |-> duration,
                     budget_status |-> budget_status,
                     estimated_cost |-> cost,
                     minimum_budget_required |->
                        IF budget_status = "insufficient" THEN cost
                        ELSE NoneVal],
                  transportation |-> [mode |-> travel_mode],
                  budget_breakdown |->
                    [total_budget |-> budget, estimated_cost |-> cost,
                     budget_status |-> budget_status],
                  daily_itinerary |-> <<[day |-> 1, of |-> destination]>>,
                  fixed_text |-> [destination |-> destination, theme |-> theme],
                  sources |-> frontend_sources(backend_result)]

\* the try block of plan_trip, given what the agent call gave
plan_trip_try(user_input, outcome) ==
    IF IsRaise(outcome) THEN outcome
    ELSE LET parsed == parse_agent_response(outcome, user_input)
         IN  IF IsRaise(parsed) THEN parsed
             ELSE LET checked == validate_response_structure(parsed, user_input)
                  IN  IF IsRaise(checked) THEN checked
                      ELSE LET transformed_response ==
                                transform_backend_response_to_frontend_format(
                                    checked, user_input)
                           IN  IF IsRaise(transformed_response)
                               THEN transformed_response
                               ELSE [status |->
                                        IF Get(checked, "status", "") # "error"
                                        THEN "success" ELSE "error",
                                     agent_response |-> transformed_response,
                                     method |-> "travel_planning_agent"]

\* plan_trip letting an exception of its try block pass as a body
plan_trip_response_unguarded(api_response) ==
    HttpOk(api_response)

\* the answer of plan_trip for what its try block gave
plan_trip_response(api_response) ==
    IF IsRaise(api_response)
    THEN HttpError(500, "Failed to plan trip")
    ELSE HttpOk(api_response)

(* the requests to the saved trips of the server; the clock may advance
   between two requests *)

ServerReady == pc = "idle" /\ call.fn \in
    {"none", "save_trip", "get_saved_trips", "delete_trip"}

\* POST /api/trips/save
SaveTrip ==
    /\ ServerReady
    /\ Len(log) < MaxRequests
    /\ \E request \in SaveTripRequests, now \in {clock, clock + 1} :
        LET trip_id == trip_id_of(request, now)
        IN  /\ saved_trips' = dict_set(saved_trips, trip_id,
                                       trip_record(trip_id, request, now))
            /\ clock' = now
            /\ call' = [fn |-> "save_trip", request |-> request]
            /\ ret' = HttpOk([id |-> trip_id,
                              message |-> "Trip saved successfully"])
            /\ log' = Append(log, [op |-> "save", id |-> trip_id,
                                   name |-> request.name,
                                   trip_data |-> request.trip_data])
    /\ UNCHANGED <<genVars, agentVars, http_log>>

\* GET /api/trips
GetSavedTrips ==
    /\ ServerReady
    /\ call' = [fn |-> "get_saved_trips"]
    /\ ret' = HttpOk(dict_values(saved_trips))
    /\ UNCHANGED <<genVars, serverVars, agentVars, http_log>>

\* DELETE /api/trips/{trip_id}
DeleteTrip ==
    /\ ServerReady
    /\ Len(log) < MaxRequests
    /\ \E trip_id \in {<<"a">>, <<"t", "r", "i", "p", "_", "1">>, <<"b">>} :
        /\ call' = [fn |-> "delete_trip", trip_id |-> trip_id]
        /\ IF ~dict_has(saved_trips, trip_id)
           THEN /\ ret' = HttpError(404, "Trip not found")
                /\ UNCHANGED saved_trips
           ELSE /\ saved_trips' = dict_del(saved_trips, trip_id)
                /\ ret' = HttpOk([message |-> "Trip deleted successfully"])
        /\ log' = Append(log, [op |-> "delete", id |-> trip_id,
                               status_code |-> ret'.status_code])
    /\ UNCHANGED <<genVars, clock, agentVars, http_log>>

\* POST /api/plan-trip
PlanTrip ==
    /\ pc = "idle"
    /\ call = NoCall
    /\ \E user_input \in
            {PyStrValue(<<"G", "o", "a", " ", "t", "r", "i", "p">>)}
            \cup {PyDictValue(TripRequestDict(m, b, th, <<"2", " ", "d", "a", "y", "s">>)) :
                    m \in {STR_Self, <<"B", "o", "o", "k", "i", "n", "g">>},
                    b \in {<<"2", "0", "0", "0", "0">>, <<"rupee", "4", ",", "0", "0", "0">>},
                    th \in {<<"C", "u", "l", "t", "u", "r", "a", "l">>, <<"D", "e", "v", "o", "t", "i", "o", "n", "a", "l">>}} :
        IF travel_agent = NoAgent
        THEN /\ call' = [fn |-> "plan_trip", user_input |-> user_input]
             /\ ret' = HttpError(503, "Travel planning agent is not available. Please check API keys.")
             /\ UNCHANGED agent_calls
        ELSE /\ agent_calls' = agent_calls + 1
             /\ \E outcome \in search_and_respond(user_input) :
                 /\ call' = [fn |-> "plan_trip", user_input |-> user_input,
                             agent_result |-> outcome]
                 /\ ret' = plan_trip_response(plan_trip_try(user_input, outcome))
    /\ UNCHANGED <<genVars, serverVars, travel_agent, http_log>>

(* transform_backend_response_to_frontend_format called on its own *)

\* backend results: without a budget_validation, with None for it, with
\* sources, and with a budget_validation holding every choice of keys
BackendResults ==
    LET statuses == {"sufficient", "insufficient", "error", "unknown"}
        amounts == {0, 4000, 13050, 20000}
        validations ==
            {EmptyDict}
            \cup {[status |-> st] : st \in statuses}
            \cup {[status |-> st, provided_budget |-> p] :
                    st \in statuses, p \in amounts}
            \cup {[status |-> st, minimum_required |-> m] :
                    st \in statuses, m \in amounts}
            \cup {[status |-> st, provided_budget |-> p, minimum_required |-> m] :
                    st \in statuses, p \in amounts, m \in amounts}
            \cup {[provided_budget |-> p, minimum_required |-> m] :
                    p \in amounts, m \in amounts}
    IN  {EmptyDict,
         [status |-> "success", budget_validation |-> PyNone],
         [status |-> "success", sources |-> <<"web search">>]}
        \cup {[status |-> "success", budget_validation |-> v] :
                v \in validations}

CallTransform ==
    /\ pc = "idle"
    /\ call = NoCall
    /\ \E backend_result \in BackendResults,
          user_input \in
            {PyStrValue(<<"G", "o", "a">>),
             PyDictValue(TripRequestDict(STR_Self, <<"2", "0", "0", "0", "0">>,
                                         STR_Adventure, STR_3_days)),
             PyDictValue(EmptyDict)} :
        /\ call' = [fn |-> "transform_backend_response_to_frontend_format",
                    backend_result |-> backend_result,
                    user_input |-> user_input]
        /\ ret' = transform_backend_response_to_frontend_format(
                        backend_result, user_input)
    /\ UNCHANGED <<genVars, serverVars, agentVars, http_log>>

(* TravelPlanningTool.google_search *)

STR_your_serp_api_key_here == <<"y", "o", "u", "r", "_", "s", "e", "r", "p", "_", "a", "p", "i", "_", "k", "e", "y", "_", "h", "e", "r", "e">>

\* a str or None is truthy
Truthy(v) == v # NoneVal /\ v # STR_empty

\* has_valid_api_key asking only for a key that is not empty
has_valid_api_key_any_length(key) ==
    /\ Truthy(key)
    /\ key # STR_your_serp_api_key_here
    /\ Len(key) > 0

\* self.has_valid_api_key, read as a condition
has_valid_api_key(key) ==
    /\ Truthy(key)
    /\ key # STR_your_serp_api_key_here
    /\ Len(key) > 10

\* TravelPlanningTool(api_key) with SERP_API_KEY as the environment has it
TravelPlanningTool(api_key, env_key) ==
    LET key == IF Truthy(api_key) THEN api_key ELSE env_key
    IN  [api_key |-> key,
         has_valid_api_key |-> has_valid_api_key(key),
         base_url |-> "https://serpapi.com/search"]

\* sub in s
Contains(s, sub) ==
    \E i \in 1..(Len(s) - Len(sub) + 1) :
        \A j \in 1..Len(sub) : s[i + j - 1] = sub[j]

\* _get_fallback_search_results; the texts of the results are left out, their
\* positions and the branch they come from are kept
_get_fallback_search_results(query, num_results) ==
    LET q == Lower(query)
        category ==
            IF Contains(q, <<"h", "o", "t", "e", "l">>) THEN "hotel"
            ELSE IF Contains(q, <<"r", "e", "s", "t", "a", "u", "r", "a", "n", "t">>)
                    \/ Contains(q, <<"f", "o", "o", "d">>)
            THEN "restaurant"
            ELSE IF Contains(q, <<"a", "t", "t", "r", "a", "c", "t", "i", "o", "n">>)
                    \/ Contains(q, <<"p", "l", "a", "c", "e", "s">>)
                    \/ Contains(q, <<"v", "i", "s", "i", "t">>)
            THEN "attraction"
            ELSE "generic"
        results == [i \in 1..(IF category = "hotel" THEN 3 ELSE 2) |->
                        [position |-> i, about |-> category]]
    IN  [status |-> "success",
         query |-> query,
         total_results |-> Len(results),
         organic_results |-> results,
         featured_snippet |-> PyNone,
         knowledge_graph |-> PyNone,
         related_questions |-> <<>>,
         search_metadata |->
            [search_time |-> "0.5s", country |-> "in", language |-> "en",
             source |-> "fallback_data"]]

\* s[:n] for n >= 0
Prefix(s, n) == SubSeq(s, 1, IF n < Len(s) THEN n ELSE Len(s))

\* what the HTTP request gives: an exception of the session, of get, of
\* raise_for_status or of the decoding, or the decoded body
SerpOutcomes ==
    {Raise(x) : x \in {"ClientConnectorError", "TimeoutError",
                      "ClientResponseError", "ContentTypeError"}}
    \cup {[data |-> d] : d \in
        {PyDictValue(EmptyDict),
         PyDictValue([error |-> "Invalid API key"]),
         PyDictValue([organic_results |->
            <<[title |-> "Goa hotels", position |-> 1], EmptyDict,
              [title |-> "Goa stays", position |-> 3]>>,
            search_metadata |-> [total_time_taken |-> "0.7"]]),
         PyDictValue([organic_results |-> <<>>,
                      answer_box |-> [type |-> "weather"],
                      knowledge_graph |-> [title |-> "Goa"],
                      related_questions |-> <<[question |-> "When to go"]>>]),
         PyDictValue([knowledge_graph |-> [source |-> PyNone]]),
         [py |-> "list"]}}

\* the try block of google_search after the request gave data
search_results_of(data, query, num_results, country, language) ==
    IF data.py # "dict" THEN Raise("AttributeError")
    ELSE LET d == data.value
             results ==
                IF "organic_results" \in DOMAIN d
                THEN LET shown == Prefix(d.organic_results, num_results)
                     IN  [i \in 1..Len(shown) |->
                            [title |-> Get(shown[i], "title", "N/A"),
                             position |-> Get(shown[i], "position", 0)]]
                ELSE <<>>
             featured_snippet ==
                IF "answer_box" \in DOMAIN d
                THEN [type |-> Get(d.answer_box, "type", "answer"),
                      title |-> Get(d.answer_box, "title", "N/A")]
                ELSE PyNone
             kg_raises ==
                /\ "knowledge_graph" \in DOMAIN d
                /\ IsNone(Get(d.knowledge_graph, "source", EmptyDict))
             knowledge_graph ==
                IF "knowledge_graph" \in DOMAIN d
                THEN [title |-> Get(d.knowledge_graph, "title", "N/A"),
                      source |-> Get(Get(d.knowledge_graph, "source", EmptyDict),
                                     "name", "N/A")]
                ELSE PyNone
             related_questions ==
                IF "related_questions" \in DOMAIN d
                THEN LET shown == Prefix(d.related_questions, 5)
                     IN  [i \in 1..Len(shown) |->
                            [question |-> Get(shown[i], "question", "N/A")]]
                ELSE <<>>
         IN  IF kg_raises THEN Raise("AttributeError")
             ELSE [status |-> "success",
                   query |-> query,
                   total_results |-> Len(results),
                   organic_results |-> results,
                   featured_snippet |-> featured_snippet,
                   knowledge_graph |-> knowledge_graph,
                   related_questions |-> related_questions,
                   search_metadata |->
                      [search_time |->
                          Get(Get(d, "search_metadata", EmptyDict),
                              "total_time_taken", "N/A"),
                       country |-> country, language |-> language]]

\* google_search once the key was found valid, given what the request gave
google_search_with_key(outcome, query, num_results, country, language) ==
    LET found == IF IsRaise(outcome) THEN outcome
                 ELSE search_results_of(outcome.data, query, num_results,
                                        country, language)
    IN  IF IsRaise(found)
        THEN _get_fallback_search_results(query, num_results)
        ELSE found

\* the keys passed and the keys of the environment; None is a key not set
SerpKeys ==
    {NoneVal, STR_empty, STR_your_serp_api_key_here,
     <<"k", "2", "3", "4", "5", "6", "7", "8", "9", "0">>, <<"k", "2", "3", "4", "5", "6", "7", "8", "9", "0", "1">>}

CallGoogleSearch ==
    /\ pc = "idle"
    /\ call = NoCall
    /\ \E api_key \in SerpKeys, env_key \in SerpKeys, query \in
            {<<"H", "o", "t", "e", "l", "s", " ", "i", "n", " ", "G", "o", "a">>,
             <<"b", "e", "s", "t", " ", "F", "O", "O", "D", " ", "P", "u", "n", "e">>,
             <<"p", "l", "a", "c", "e", "s", " ", "t", "o", " ", "v", "i", "s", "i", "t">>,
             <<"G", "o", "a", " ", "w", "e", "a", "t", "h", "e", "r">>, STR_empty},
          num_results \in {0, 2, 10} :
        LET self == TravelPlanningTool(api_key, env_key)
        IN  IF ~self.has_valid_api_key
            THEN /\ call' = [fn |-> "google_search", self |-> self,
                             query |-> query, num_results |-> num_results]
                 /\ ret' = _get_fallback_search_results(query, num_results)
                 /\ UNCHANGED http_log
            ELSE \E outcome \in SerpOutcomes :
                 /\ call' = [fn |-> "google_search", self |-> self,
                             query |-> query, num_results |-> num_results,
                             outcome |-> outcome]
                 /\ http_log' = Append(http_log,
                        [url |-> self.base_url,
                         params |-> [q |-> query,
                                     num |-> IF num_results < 100
                                             THEN num_results ELSE 100,
                                     api_key |-> self.api_key]])
                 /\ ret' = google_search_with_key(outcome, query, num_results,
                                                  "in", "en")
    /\ UNCHANGED <<genVars, serverVars, agentVars>>

(* WeatherTool of weather_tool *)

\* what an HTTP request of the tool raises: at connection, by timeout, at
\* raise_for_status, at the decoding of the body
RequestErrors ==
    {Raise(x) : x \in {"ClientConnectorError", "TimeoutError",
                      "ClientResponseError", "ContentTypeError"}}

\* what the geocoding request gives: an exception, or a decoded body without
\* results, with None or an empty list for them, a body that is no dict, or
\* a body with one result, with and without a timezone
GeocodeOutcomes ==
    RequestErrors
    \cup {[data |-> PyDictValue(EmptyDict)],
          [data |-> PyDictValue([results |-> PyNone])],
          [data |-> PyDictValue([results |-> [items |-> <<>>]])],
          [data |-> [py |-> "list"]]}
    \cup {[data |-> PyDictValue([results |-> [items |-> <<top>>]])] :
            top \in
                {[name |-> <<"G", "o", "a">>, latitude |-> 15, longitude |-> 74,
                  country |-> <<"I", "n", "d", "i", "a">>,
                  timezone |-> <<"A", "s", "i", "a", "/", "K", "o", "l", "k", "a", "t", "a">>],
                 [name |-> <<"G", "o", "a">>, latitude |-> 15, longitude |-> 74]}}

\* _geocode returning a dict of None fields when nothing was found
_geocode_always_dict(outcome) ==
    IF IsRaise(outcome) THEN PyNone
    ELSE IF outcome.data.py # "dict" THEN PyNone
    ELSE LET found == Get(outcome.data.value, "results", PyNone)
             results == IF IsNone(found) THEN <<>> ELSE found.items
             top == IF results = <<>> THEN EmptyDict ELSE results[1]
         IN  [name |-> Get(top, "name", NoneVal),
              latitude |-> Get(top, "latitude", NoneVal),
              longitude |-> Get(top, "longitude", NoneVal),
              country |-> Get(top, "country", NoneVal),
              timezone |-> Get(top, "timezone", NoneVal)]

\* _geocode, given what its request gave
_geocode(outcome) ==
    IF IsRaise(outcome) THEN PyNone
    ELSE IF outcome.data.py # "dict" THEN PyNone
    ELSE LET found == Get(outcome.data.value, "results", PyNone)
             results == IF IsNone(found) THEN <<>> ELSE found.items
         IN  IF results = <<>> THEN PyNone
             ELSE LET top == results[1]
                  IN  [name |-> Get(top, "name", NoneVal),
                       latitude |-> Get(top, "latitude", NoneVal),
                       longitude |-> Get(top, "longitude", NoneVal),
                       country |-> Get(top, "country", NoneVal),
                       timezone |-> Get(top, "timezone", NoneVal)]

geocode_request(location) ==
    [url |-> "https://geocoding-api.open-meteo.com/v1/search",
     params |-> [name |-> location, count |-> 1, language |-> "en",
                 format |-> "json"]]

location_not_found(location) ==
    [status |-> "error",
     message |-> [text |-> "Location not found", about |-> location]]

fetch_failed(text, outcome) ==
    [status |-> "error", message |-> [text |-> text, about |-> outcome.raise]]

\* what a data request gives: an exception, or the decoded body: an empty
\* dict, a dict with the data, a body that is no dict
DataOutcomes ==
    RequestErrors
    \cup {[data |-> d] : d \in
            {PyDictValue(EmptyDict),
             PyDictValue([current |-> [temperature_2m |-> 29],
                          daily |-> [temperature_2m_max |-> <<31, 30>>],
                          hourly |-> [pm10 |-> <<40, 42>>]]),
             [py |-> "list"]}}

\* data.get(key) inside the try block of a method
data_get(outcome, key) ==
    IF IsRaise(outcome) THEN outcome
    ELSE IF outcome.data.py # "dict" THEN Raise("AttributeError")
    ELSE [value |-> Get(outcome.data.value, key, PyNone)]

timezone_or_auto(geocoded) ==
    IF Truthy(geocoded.timezone) THEN geocoded.timezone ELSE <<"a", "u", "t", "o">>

\* temp_unit and wind_unit
unit_names(units) ==
    IF units = <<"i", "m", "p", "e", "r", "i", "a", "l">>
    THEN [temperature_unit |-> "fahrenheit", wind_speed_unit |-> "mph"]
    ELSE [temperature_unit |-> "celsius", wind_speed_unit |-> "kmh"]

\* get_current_weather
current_weather_request(geocoded, units) ==
    [url |-> "https://api.open-meteo.com/v1/forecast",
     params |-> [latitude |-> geocoded.latitude,
                 longitude |-> geocoded.longitude,
                 temperature_unit |-> unit_names(units).temperature_unit,
                 wind_speed_unit |-> unit_names(units).wind_speed_unit,
                 timezone |-> timezone_or_auto(geocoded)]]

current_weather_result(geocoded, units, outcome) ==
    LET current == data_get(outcome, "current")
    IN  IF IsRaise(current)
        THEN fetch_failed("Current weather fetch failed", current)
        ELSE [status |-> "success", location |-> geocoded, units |-> units,
              current |-> current.value]

\* max(1, min(int(days or 7), 16)) for an int days
forecast_days(days) ==
    LET asked == IF days = 0 THEN 7 ELSE days
        capped == IF asked < 16 THEN asked ELSE 16
    IN  IF capped > 1 THEN capped ELSE 1

\* get_forecast
forecast_request(geocoded, days, units) ==
    [url |-> "https://api.open-meteo.com/v1/forecast",
     params |-> [latitude |-> geocoded.latitude,
                 longitude |-> geocoded.longitude,
                 forecast_days |-> forecast_days(days),
                 temperature_unit |-> unit_names(units).temperature_unit,
                 wind_speed_unit |-> unit_names(units).wind_speed_unit,
                 timezone |-> timezone_or_auto(geocoded)]]

forecast_result(geocoded, units, outcome) ==
    LET daily == data_get(outcome, "daily")
        hourly == data_get(outcome, "hourly")
    IN  IF IsRaise(daily)
        THEN fetch_failed("Forecast fetch failed", daily)
        ELSE [status |-> "success", location |-> geocoded, units |-> units,
              daily |-> daily.value, hourly |-> hourly.value]

\* get_air_quality
air_quality_request(geocoded) ==
    [url |-> "https://air-quality-api.open-meteo.com/v1/air-quality",
     params |-> [latitude |-> geocoded.latitude,
                 longitude |-> geocoded.longitude,
                 timezone |-> timezone_or_auto(geocoded)]]

air_quality_result(geocoded, outcome) ==
    LET hourly == data_get(outcome, "hourly")
    IN  IF IsRaise(hourly)
        THEN fetch_failed("Air quality fetch failed", hourly)
        ELSE [status |-> "success", location |-> geocoded,
              air_quality |-> hourly.value]

WeatherLocations == {<<"G", "o", "a">>, <<"A", "t", "l", "a", "n", "t", "i", "s">>, STR_empty}

ForecastDays == {-3, -1, 0, 1, 2, 7, 15, 16, 17, 40}

CallGetCurrentWeather ==
    /\ pc = "idle"
    /\ call = NoCall
    /\ \E location \in WeatherLocations, units \in {<<"m", "e", "t", "r", "i", "c">>, <<"i", "m", "p", "e", "r", "i", "a", "l">>},
          geo \in GeocodeOutcomes :
        LET geocoded == _geocode(geo)
        IN  IF IsNone(geocoded)
            THEN /\ call' = [fn |-> "get_current_weather",
                             location |-> location, units |-> units,
                             geo |-> geo]
                 /\ http_log' = <<geocode_request(location)>>
                 /\ ret' = location_not_found(location)
            ELSE \E outcome \in DataOutcomes :
                 /\ call' = [fn |-> "get_current_weather",
                             location |-> location, units |-> units,
                             geo |-> geo, outcome |-> outcome]
                 /\ http_log' = <<geocode_request(location),
                                  current_weather_request(geocoded, units)>>
                 /\ ret' = current_weather_result(geocoded, units, outcome)
    /\ UNCHANGED <<genVars, serverVars, agentVars>>

CallGetForecast ==
    /\ pc = "idle"
    /\ call = NoCall
    /\ \E location \in WeatherLocations, days \in ForecastDays,
          units \in {<<"m", "e", "t", "r", "i", "c">>, <<"i", "m", "p", "e", "r", "i", "a", "l">>}, geo \in GeocodeOutcomes :
        LET geocoded == _geocode(geo)
        IN  IF IsNone(geocoded)
            THEN /\ call' = [fn |-> "get_forecast", location |-> location,
                             days |-> days, units |-> units, geo |-> geo]
                 /\ http_log' = <<geocode_request(location)>>
                 /\ ret' = location_not_found(location)
            ELSE \E outcome \in DataOutcomes :
                 /\ call' = [fn |-> "get_forecast", location |-> location,
                             days |-> days, units |-> units, geo |-> geo,
                             outcome |-> outcome]
                 /\ http_log' = <<geocode_request(location),
                                  forecast_request(geocoded, days, units)>>
                 /\ ret' = forecast_result(geocoded, units, outcome)
    /\ UNCHANGED <<genVars, serverVars, agentVars>>

CallGetAirQuality ==
    /\ pc = "idle"
    /\ call = NoCall
    /\ \E location \in WeatherLocations, geo \in GeocodeOutcomes :
        LET geocoded == _geocode(geo)
        IN  IF IsNone(geocoded)
            THEN /\ call' = [fn |-> "get_air_quality", location |-> location,
                             geo |-> geo]
                 /\ http_log' = <<geocode_request(location)>>
                 /\ ret' = location_not_found(location)
            ELSE \E outcome \in DataOutcomes :
                 /\ call' = [fn |-> "get_air_quality", location |-> location,
                             geo |-> geo, outcome |-> outcome]
                 /\ http_log' = <<geocode_request(location),
                                  air_quality_request(geocoded)>>
                 /\ ret' = air_quality_result(geocoded, outcome)
    /\ UNCHANGED <<genVars, serverVars, agentVars>>

(* POST /api/validate-duration of the server *)

\* os.getenv("GEMINI_API_KEY") or os.getenv("GOOGLE_API_KEY") reading only
\* the first variable
gemini_api_key_first_only(gemini_key, google_key) == gemini_key

\* os.getenv("GEMINI_API_KEY") or os.getenv("GOOGLE_API_KEY")
gemini_api_key(gemini_key, google_key) ==
    IF Truthy(gemini_key) THEN gemini_key ELSE google_key

\* s without its leading whitespace
RECURSIVE SkipSpace(_)
SkipSpace(s) ==
    IF s # <<>> /\ Head(s) \in {" ", "\n", "\t"} THEN SkipSpace(Tail(s)) ELSE s

\* re.search(r'(\d+)\s*days?', s): group 1 of the leftmost match, or None
RECURSIVE duration_match(_)
duration_match(s) ==
    IF s = <<>> THEN NoneVal
    ELSE IF IsDigit(Head(s))
         THEN LET run == DigitPrefix(s)
                  rest == SubSeq(s, Len(run) + 1, Len(s))
                  after == SkipSpace(rest)
              IN  IF Len(after) >= 3 /\ SubSeq(after, 1, 3) = <<"d", "a", "y">>
                  THEN run
                  ELSE duration_match(rest)
         ELSE duration_match(Tail(s))

\* a JSON number, as json.loads gives it
PyIntValue(n) == [py |-> "int", value |-> n]

\* what the AI step meets: the import, configure or generate_content
\* raise, response.text raises, or the model replied; a reply is its text
\* and what json.loads makes of it (no decodes key: JSONDecodeError)
AIOutcomes ==
    {Raise(x) : x \in {"ImportError", "GoogleAPIError", "ValueError"}}
    \cup {[reply |-> r] : r \in
        {[text |-> <<"{", "\"", "m", "i", "n", "i", "m", "u", "m", "_", "d", "u", "r", "a", "t", "i", "o", "n", "\"", ":", " ", "4", "}">>,
          decodes |-> PyDictValue([minimum_duration |-> PyIntValue(4)])],
         [text |-> <<"{", "\"", "m", "i", "n", "i", "m", "u", "m", "_", "d", "u", "r", "a", "t", "i", "o", "n", "\"", ":", " ", "1", "}">>,
          decodes |-> PyDictValue([minimum_duration |-> PyIntValue(1)])],
         [text |-> <<"{", "\"", "m", "i", "n", "i", "m", "u", "m", "_", "d", "u", "r", "a", "t", "i", "o", "n", "\"", ":", " ", "1", "1", "}">>,
          decodes |-> PyDictValue([minimum_duration |-> PyIntValue(11)])],
         [text |-> <<"{", "\"", "i", "d", "e", "a", "l", "_", "r", "a", "n", "g", "e", "\"", ":", " ", "\"", "5", "-", "7", " ", "d", "a", "y", "s", "\"", "}">>,
          decodes |-> PyDictValue([ideal_range |-> "5-7 days"])],
         [text |-> <<"{", "\"", "m", "i", "n", "i", "m", "u", "m", "_", "d", "u", "r", "a", "t", "i", "o", "n", "\"", ":", " ", "n", "u", "l", "l", "}">>,
          decodes |-> PyDictValue([minimum_duration |-> PyNone])],
         [text |-> <<"{", "\"", "m", "i", "n", "i", "m", "u", "m", "_", "d", "u", "r", "a", "t", "i", "o", "n", "\"", ":", " ", "\"", "5", " ", "d", "a", "y", "s", "\"", "}">>,
          decodes |-> PyDictValue([minimum_duration |-> PyStrValue("5 days")])],
         [text |-> <<"[", "7", "]">>, decodes |-> [py |-> "list"]],
         [text |-> <<"7">>, decodes |-> PyIntValue(7)],
         [text |-> <<"A", "b", "o", "u", "t", " ", "5", " ", "D", "a", "y", "s", ",", " ", "o", "r", " ", "1", "2", " ", "d", "a", "y", "s">>],
         [text |-> <<"3", " ", "n", "i", "g", "h", "t", "s", ",", " ", "1", "0", " ", " ", "d", "a", "y", "s">>],
         [text |-> <<"A", " ", "w", "e", "e", "k">>],
         [text |-> STR_empty]}}

distance_category(min_duration) ==
    IF min_duration >= 4 THEN "long"
    ELSE IF min_duration >= 3 THEN "medium" ELSE "short"

\* the AI step, given a key: its answer, or the exception that leaves it
ai_duration_analysis(request, outcome) ==
    IF IsRaise(outcome) THEN outcome
    ELSE LET reply == outcome.reply
             matched == duration_match(Lower(reply.text))
             found ==
                IF "decodes" \in DOMAIN reply /\ reply.decodes.py = "dict"
                THEN Get(reply.decodes.value, "minimum_duration", PyIntValue(3))
                ELSE PyIntValue(IF matched # NoneVal THEN ToInt(matched) ELSE 3)
         IN  IF IsNone(found) THEN Raise("TypeError")
             ELSE IF found.py # "int" THEN Raise("TypeError")
             ELSE LET min_duration == found.value
                  IN  [minimum_duration |-> min_duration,
                       feasible_durations |->
                            SelectSeq(all_durations,
                                      LAMBDA d : d.days >= min_duration),
                       message |-> [text |-> "AI recommends minimum days",
                                    days |-> min_duration],
                       travel_info |->
                            [distance_category |-> distance_category(min_duration),
                             about |-> <<Lower(request.travel_mode),
                                         request.destination>>,
                             ai_explanation |-> Prefix(outcome.reply.text, 200)],
                       method |-> "ai_duration_analysis"]

\* the distance step: its answer, or the exception that leaves it
distance_based_calculation(request, outcome) ==
    IF IsRaise(outcome) THEN outcome
    ELSE LET min_duration ==
                calculate_minimum_duration(request.source, request.destination,
                                           request.travel_mode)
         IN  [minimum_duration |-> min_duration,
              feasible_durations |->
                    get_feasible_durations(request.source, request.destination,
                                           request.travel_mode),
              message |-> [text |-> "Minimum days required for this trip",
                           days |-> min_duration],
              travel_info |->
                    [distance_category |-> distance_category(min_duration),
                     about |-> <<Lower(request.travel_mode)>>],
              method |-> "distance_based_calculation"]

hardcoded_fallback(error) ==
    [minimum_duration |-> 2,
     feasible_durations |-> all_durations,
     message |-> [text |-> "Using default duration options"],
     error |-> error.raise,
     method |-> "hardcoded_fallback"]

\* the requests: DurationValidationRequest holds three str
DurationValidationRequests ==
    {[source |-> s, destination |-> d, travel_mode |-> m] :
        s \in {<<"G", "o", "a">>, <<"K", "e", "r", "a", "l", "a">>},
        d \in {<<"P", "u", "n", "e">>, <<"A", "s", "s", "a", "m">>},
        m \in {STR_Self, <<"B", "o", "o", "k", "i", "n", "g">>}}

EnvKeys == {NoneVal, STR_empty, <<"A", "I", "z", "a">>}

ValidateDurationEndpoint ==
    /\ pc = "idle"
    /\ call = NoCall
    /\ \E request \in DurationValidationRequests,
          gemini_key \in EnvKeys, google_key \in EnvKeys,
          ai \in AIOutcomes,
          distance \in {[returns |-> TRUE], Raise("Exception")} :
        LET api_key == gemini_api_key(gemini_key, google_key)
            ai_tried == Truthy(api_key)
            ai_answer == ai_duration_analysis(request, ai)
            ai_answered == ai_tried /\ ~IsRaise(ai_answer)
            distance_answer == distance_based_calculation(request, distance)
        IN  /\ call' = [fn |-> "validate_duration_endpoint",
                        request |-> request,
                        GEMINI_API_KEY |-> gemini_key,
                        GOOGLE_API_KEY |-> google_key,
                        tried |-> (IF ai_tried THEN <<"ai">> ELSE <<>>)
                                  \o (IF ai_answered THEN <<>>
                                      ELSE IF IsRaise(distance_answer)
                                      THEN <<"distance", "hardcoded">>
                                      ELSE <<"distance">>),
                        raised |-> (IF ai_tried /\ ~ai_answered
                                    THEN <<"ai">> ELSE <<>>)
                                   \o (IF ~ai_answered /\ IsRaise(distance_answer)
                                       THEN <<"distance">> ELSE <<>>)]
            /\ ret' = HttpOk(IF ai_answered THEN ai_answer
                             ELSE IF ~IsRaise(distance_answer)
                             THEN distance_answer
                             ELSE hardcoded_fallback(distance_answer))
    /\ UNCHANGED <<genVars, serverVars, agentVars, http_log>>

(* PersonalizedTripPlanner.__init__ and create_trip_planner *)

\* the str literal that opens the "or" chain of __init__ (shortened)
LITERAL_API_KEY == <<"A", "I", "z", "a", "S", "y">>

\* a or b or c of str-or-None values
FirstTruthy(a, b, c) ==
    IF Truthy(a) THEN a ELSE IF Truthy(b) THEN b ELSE c

\* __init__: the api_key argument is not read; the planner made, or the
\* exception raised
PersonalizedTripPlanner(api_key, gemini_key, google_key) ==
    LET self_api_key == FirstTruthy(LITERAL_API_KEY, gemini_key, google_key)
    IN  IF ~Truthy(self_api_key)
        THEN Raise("ValueError: GEMINI_API_KEY or GOOGLE_API_KEY must be provided")
        ELSE [api_key |-> self_api_key,
              configured |-> self_api_key,
              model_name |-> "gemini-1.5-flash"]

\* create_trip_planner(api_key)
create_trip_planner(api_key, gemini_key, google_key) ==
    PersonalizedTripPlanner(api_key, gemini_key, google_key)

CallPersonalizedTripPlanner ==
    /\ pc = "idle"
    /\ call = NoCall
    /\ \E api_key \in {NoneVal, <<"a", "r", "g", "k", "e", "y">>}, gemini_key \in EnvKeys,
          google_key \in EnvKeys,
          fn \in {"PersonalizedTripPlanner", "create_trip_planner"} :
        /\ call' = [fn |-> fn, api_key |-> api_key,
                    GEMINI_API_KEY |-> gemini_key,
                    GOOGLE_API_KEY |-> google_key]
        /\ ret' = IF fn = "create_trip_planner"
                  THEN create_trip_planner(api_key, gemini_key, google_key)
                  ELSE PersonalizedTripPlanner(api_key, gemini_key, google_key)
    /\ UNCHANGED <<genVars, serverVars, agentVars, http_log>>

Next ==
    \/ \E ti \in TravelInputs : Generate(ti)
    \/ ReturnBudgetInsufficient
    \/ StartChat
    \/ SendMessage
    \/ AnswerFunctionCall
    \/ ProcessResponse
    \/ ExceptFallback
    \/ CallValidateBudget
    \/ CallValidateDuration
    \/ CallCreateFallback
    \/ CallCreateStructured
    \/ CallCalculateMinimumDuration
    \/ CallGetFeasibleDurations
    \/ SaveTrip
    \/ GetSavedTrips
    \/ DeleteTrip
    \/ PlanTrip
    \/ CallTransform
    \/ CallGoogleSearch
    \/ CallGetCurrentWeather
    \/ CallGetForecast
    \/ CallGetAirQuality
    \/ ValidateDurationEndpoint
    \/ CallPersonalizedTripPlanner

Spec == Init /\ [][Next]_vars

----------------------------------------------------------------------------
(* Notions used to state the properties, defined without the operators of
   the model above *)

\* a and b are the same string up to the case of their letters
CaseEq(a, b) ==
    /\ Len(a) = Len(b)
    /\ \A i \in 1..Len(a) :
        \/ a[i] = b[i]
        \/ \E k \in 1..26 :
            {a[i], b[i]} = {LowerAlpha[k], UpperAlpha[k]}

\* the number written by the first run of digits of s, 1 if s has no digit
FirstInteger(s) ==
    LET digitAt == {i \in 1..Len(s) : \E k \in 1..10 : DigitChars[k] = s[i]}
    IN  IF digitAt = {} THEN 1
        ELSE LET first == CHOOSE i \in digitAt : \A j \in digitAt : i <= j
                 last  == CHOOSE j \in first..Len(s) :
                            /\ \A k \in first..j : k \in digitAt
                            /\ (j + 1) \notin digitAt
             IN  ToInt(SubSeq(s, first, last))

\* the value of a key of the dict, or the given default
ValueOr(d, k, default) == IF k \in DOMAIN d THEN d[k] ELSE default

\* the days a travel input asks for
DaysOf(ti) == FirstInteger(PyStr(ValueOr(ti, "duration", STR_3_days)))

GenerateDone == pc = "done"

Called(fn) == call.fn = fn

----------------------------------------------------------------------------
(* The properties *)

\* C1: when the budget validation of the input is 'insufficient' and the
\* duration is N days, generate_personalized_itinerary still returns a
\* daily_itinerary of exactly N entries together with a budget_alert.
C1_InsufficientBudgetStillPlanned ==
    (GenerateDone /\ budget_validation.status = "insufficient"
        /\ "validated_duration" \in DOMAIN duration_validation)
    => /\ "daily_itinerary" \in DOMAIN result
       /\ "budget_alert" \in DOMAIN result
       /\ Len(result.daily_itinerary)
            = duration_validation.validated_duration

\* C2: _create_fallback_itinerary returns a daily_itinerary of exactly N
\* entries numbered 1..N for every input whose duration validates to N days,
\* 1 <= N <= 30.
C2_FallbackHasNDays ==
    (Called("_create_fallback_itinerary")
        /\ DaysOf(call.travel_input) \in 1..30)
    => /\ "daily_itinerary" \in DOMAIN ret
       /\ Len(ret.daily_itinerary) = DaysOf(call.travel_input)
       /\ \A i \in 1..Len(ret.daily_itinerary) :
            ret.daily_itinerary[i].day = i

\* the reply of the LLM was processed and is JSON with fewer than n days
\* (some days, no day, no daily_itinerary field) or is not JSON at all
ShortOrUnparseableReply(n) ==
    /\ ~response.text_raises
    /\ \/ response.text.kind \in {"prose", "malformed"}
       \/ /\ response.text.kind = "json"
          /\ \/ "daily_itinerary" \notin DOMAIN response.text.value
             \/ Len(response.text.value.daily_itinerary) < n

\* C3: when the LLM reply is JSON with fewer daily_itinerary entries than
\* the validated duration N, or is not parseable JSON, the result of
\* generate_personalized_itinerary has a daily_itinerary of exactly N entries.
C3_ShortReplyCompletedToNDays ==
    (GenerateDone /\ raised = "nothing"
        /\ budget_validation.status # "insufficient"
        /\ "validated_duration" \in DOMAIN duration_validation
        /\ ShortOrUnparseableReply(duration_validation.validated_duration))
    => /\ "daily_itinerary" \in DOMAIN result
       /\ Len(result.daily_itinerary)
            = duration_validation.validated_duration

\* C4: _create_structured_response(response_text, travel_input) returns a
\* daily_itinerary of exactly N entries, N the days of the input's duration,
\* whatever the response text is.
C4_StructuredResponseHasNDays ==
    Called("_create_structured_response")
    => /\ "daily_itinerary" \in DOMAIN ret
       /\ Len(ret.daily_itinerary) = DaysOf(call.travel_input)

TripOverviewKeys ==
    {"source", "destination", "travel_mode", "theme", "duration", "budget"}

\* C5: whenever starting the chat, sending a message, reading the reply
\* text or post-processing the reply raises, generate_personalized_itinerary
\* returns the fallback itinerary (status 'fallback'), whose trip_overview
\* repeats the source, destination, travel_mode, theme, duration and budget
\* of the input; the exception is not propagated.
C5_ExceptionGivesFallback ==
    (GenerateDone /\ raised # "nothing")
    => /\ "status" \in DOMAIN result
       /\ result.status = "fallback"
       /\ \A k \in TripOverviewKeys \cap DOMAIN travel_input :
            result.trip_overview[k] = travel_input[k]

C5_Witness ==
    /\ GenerateDone
    /\ raised = "processing"
    /\ chats_started = 1
    /\ result.status = "fallback"
    /\ result.trip_overview.source = travel_input.source

C7_BudgetStatus ==
    Called("validate_budget")
    => /\ "status" \in DOMAIN ret
       /\ ret.status \in {"sufficient", "insufficient", "error"}
       /\ ret.status # "error"
            => (ret.status = "sufficient"
                    <=> ret.provided_budget >= ret.minimum_required)
       /\ ret.status = "sufficient"
            => /\ ret.buffer_amount
                    = ret.provided_budget - ret.minimum_required
               /\ ret.buffer_amount >= 0
       /\ ret.status = "insufficient"
            => /\ ret.shortfall = ret.minimum_required - ret.provided_budget
               /\ ret.shortfall > 0

\* the budget equals the minimum exactly
C7_Witness ==
    /\ Called("validate_budget")
    /\ ret.status = "sufficient"
    /\ ret.minimum_required > 0
    /\ ret.buffer_amount = 0

\* the cost of one day in tenths: T + 750 + 1750 * m for the mode and theme
\* of the travel input
PerDay10(ti) ==
    LET mode  == ValueOr(ti, "travel_mode", STR_Self)
        theme == ValueOr(ti, "theme", STR_cultural)
        T     == IF CaseEq(mode, STR_self) THEN 1500 ELSE 3500
        m10   == CASE CaseEq(theme, STR_devotional)  -> 10
                   [] CaseEq(theme, STR_cultural)    -> 12
                   [] CaseEq(theme, STR_adventurous) -> 15
                   [] CaseEq(theme, STR_nightlife)   -> 20
                   [] CaseEq(theme, STR_luxury)      -> 30
                   [] OTHER                          -> 12
    IN  10 * (T + 750) + 1750 * m10

\* C8: minimum_required = N * (T + 750 + 1750 * m) truncated to an integer,
\* N the first integer of the duration (1 if none), T = 1500 for travel mode
\* 'self' in any case and 3500 otherwise, m the theme multiplier; the
\* minimum is linear in N and Booking exceeds Self by 2000 per day.
C8_MinimumBudgetFormula ==
    (Called("validate_budget") /\ ret.status # "error")
    => LET ti == call.travel_input
           N  == FirstInteger(PyStr(ValueOr(ti, "duration", STR_1)))
       IN  /\ ret.minimum_required = (N * PerDay10(ti)) \div 10
           /\ ret.minimum_required = N * (PerDay10(ti) \div 10)
           /\ PerDay10(Put(ti, "travel_mode", <<"B", "o", "o", "k", "i", "n", "g">>))
                - PerDay10(Put(ti, "travel_mode", STR_Self)) = 10 * 2000
           /\ minimum_budget(N, <<"B", "o", "o", "k", "i", "n", "g">>,
                             Lower(ValueOr(ti, "theme", STR_cultural)))
                - minimum_budget(N, STR_Self,
                             Lower(ValueOr(ti, "theme", STR_cultural)))
                = 2000 * N

\* 15 days of luxury by booking: 15 * (3500 + 750 + 5250)
C8_Witness ==
    /\ Called("validate_budget")
    /\ ret.status = "insufficient"
    /\ call.travel_input = [budget |-> <<"6", "0", "0", "0", "0">>, travel_mode |-> <<"B", "o", "o", "k", "i", "n", "g">>,
                            theme |-> <<"L", "u", "x", "u", "r", "y">>, duration |-> <<"1", "5", " ", "d", "a", "y", "s">>]
    /\ ret.minimum_required = 142500

EntriesFor(source, destination) ==
    {e \in distances :
        \/ CaseEq(e[1], source) /\ CaseEq(e[2], destination)
        \/ CaseEq(e[1], destination) /\ CaseEq(e[2], source)}

\* the days the thresholds give for a distance
ExpectedDays(distance, travel_mode) ==
    IF travel_mode = STR_Self
    THEN CASE distance <= 300  -> 2
           [] distance > 300 /\ distance <= 800  -> 3
           [] distance > 800 /\ distance <= 1500 -> 4
           [] distance > 1500 -> 5
    ELSE CASE distance <= 500  -> 2
           [] distance > 500 /\ distance <= 1200 -> 3
           [] distance > 1200 -> 4

\* C10: calculate_minimum_duration looks the pair up case-insensitively in
\* the distance table in either direction, uses 300 km for an unknown pair,
\* and returns for mode 'Self' 2 days up to 300 km, 3 up to 800, 4 up to
\* 1500, else 5, and for every other mode 2 up to 500, 3 up to 1200, else 4.
C10_MinimumDuration ==
    Called("calculate_minimum_duration")
    => LET known == EntriesFor(call.source, call.destination)
       IN  /\ known = {}
                => ret = ExpectedDays(300, call.travel_mode)
           /\ \A e \in known : ret = ExpectedDays(e[3], call.travel_mode)

\* a pair the table has only as (chennai, goa), asked as (Goa, Chennai)
C10_Witness ==
    /\ Called("calculate_minimum_duration")
    /\ call.source = <<"G", "o", "a">>
    /\ call.destination = <<"C", "h", "e", "n", "n", "a", "i">>
    /\ call.travel_mode = STR_Self
    /\ ret = 4

\* the four fixed options, by their days
FixedOptionDays == {2, 3, 7, 10}

\* C11: get_feasible_durations returns exactly those of the four fixed
\* options (2, 3, 7 and 10 days) whose days are >= calculate_minimum_duration
\* for the same arguments, in ascending order of days; no option shorter
\* than the minimum is offered.
C11_FeasibleDurations ==
    Called("get_feasible_durations")
    => LET minimum == calculate_minimum_duration(call.source,
                            call.destination, call.travel_mode)
       IN  /\ {ret[i].days : i \in 1..Len(ret)}
                = {d \in FixedOptionDays : d >= minimum}
           /\ \A i \in 1..Len(ret) : \A j \in 1..Len(ret) :
                i < j => ret[i].days < ret[j].days
           /\ \A i \in 1..Len(ret) : ret[i].days >= minimum

\* a pair 600 km apart by own vehicle: the 2-day option is dropped
C11_Witness ==
    /\ Called("get_feasible_durations")
    /\ call.source = <<"k", "e", "r", "a", "l", "a">>
    /\ call.destination = <<"g", "o", "a">>
    /\ call.travel_mode = STR_Self
    /\ Len(ret) = 3
    /\ ret[1].days = 3

\* the saves of an id in the log, and whether the id is still saved after
\* the last of them
SavesOf(id) == {i \in 1..Len(log) : log[i].op = "save" /\ log[i].id = id}

LatestSaveOf(id) == CHOOSE i \in SavesOf(id) : \A j \in SavesOf(id) : j <= i

LiveId(id) ==
    /\ SavesOf(id) # {}
    /\ ~\E j \in 1..Len(log) :
            j > LatestSaveOf(id) /\ log[j].op = "delete" /\ log[j].id = id

LoggedIds == {log[i].id : i \in 1..Len(log)}

\* C12: after any sequence of save and delete requests every key k of
\* saved_trips maps to a record whose 'id' is k, and GET /api/trips returns
\* exactly one record for each id saved and not deleted since, with the name
\* and trip_data of the latest save of that id.
C12_SavedTripsStore ==
    /\ \A i \in 1..Len(saved_trips) :
            saved_trips[i].value.id = saved_trips[i].key
    /\ Called("get_saved_trips")
        => /\ \A i \in 1..Len(ret.body) : LiveId(ret.body[i].id)
           /\ \A id \in LoggedIds :
                LiveId(id)
                => /\ Cardinality({i \in 1..Len(ret.body) :
                                        ret.body[i].id = id}) = 1
                   /\ \A i \in 1..Len(ret.body) :
                        ret.body[i].id = id
                        => /\ ret.body[i].name
                                = log[LatestSaveOf(id)].name
                           /\ ret.body[i].trip_data
                                = log[LatestSaveOf(id)].trip_data

\* a generated id and a second trip saved over the first of the same id
C12_Witness ==
    /\ Called("get_saved_trips")
    /\ Len(log) = 3
    /\ log[1].op = "save" /\ log[1].id = generated_trip_id(1)
    /\ log[2].op = "save" /\ log[3].op = "save"
    /\ log[2].id = log[3].id /\ log[2].id # log[1].id
    /\ log[2].name # log[3].name
    /\ Len(ret.body) = 2
    /\ ret.body[2].name = log[3].name

\* C13: DELETE /api/trips/{trip_id} answers 404 'Trip not found' exactly
\* when trip_id is not in the store, and then leaves the store unchanged;
\* when trip_id is present it removes that record only and leaves every
\* other saved trip unchanged.
C13_DeleteTrip ==
    [][(call'.fn = "delete_trip" /\ log' # log)
        => LET trip_id == call'.trip_id
               present == \E i \in 1..Len(saved_trips) :
                            saved_trips[i].key = trip_id
           IN  /\ ret'.status_code = 404 <=> ~present
               /\ ~present
                    => /\ ret'.detail = "Trip not found"
                       /\ saved_trips' = saved_trips
               /\ present
                    => /\ Len(saved_trips') = Len(saved_trips) - 1
                       /\ {saved_trips'[i] : i \in 1..Len(saved_trips')}
                            = {saved_trips[i] : i \in 1..Len(saved_trips)}
                                \ {item \in {saved_trips[i] :
                                        i \in 1..Len(saved_trips)} :
                                            item.key = trip_id}]_vars

\* the second of two saved trips was deleted and the first one is left
C13_Witness ==
    /\ Called("delete_trip")
    /\ ret.status_code = 200
    /\ Len(log) = 3
    /\ log[1].op = "save" /\ log[2].op = "save"
    /\ log[2].id = call.trip_id
    /\ Len(saved_trips) = 1
    /\ saved_trips[1].key = log[1].id

(* C14: POST /api/plan-trip answers 503 without calling the agent whenever no
   travel agent was initialised, and answers 500 whenever the agent call or
   the handling of its result raises; in neither case is the answer a
   success body. *)

\* the agent call of the answered request, or the handling of what it gave,
\* raised
PlanTripRaised ==
    IsRaise(plan_trip_try(call.user_input, call.agent_result))

C14_PlanTripErrors ==
    Called("plan_trip") =>
        IF travel_agent = NoAgent
        THEN /\ ret = HttpError(503, "Travel planning agent is not available. Please check API keys.")
             /\ agent_calls = 0
             /\ "agent_result" \notin DOMAIN call
        ELSE /\ agent_calls = 1
             /\ PlanTripRaised =>
                    /\ ret.status_code = 500
                    /\ "body" \notin DOMAIN ret
             /\ ~PlanTripRaised =>
                    /\ ret.status_code = 200
                    /\ ret.body.method = "travel_planning_agent"

\* an agent was initialised, its call returned, and the handling of what it
\* returned raised
C14_Witness ==
    /\ Called("plan_trip")
    /\ travel_agent # NoAgent
    /\ ~IsRaise(call.agent_result)
    /\ PlanTripRaised
    /\ ret.status_code = 500

(* C20: in every output of transform_backend_response_to_frontend_format,
   trip_overview.budget_status is 'sufficient' or 'insufficient' (a backend
   status outside these two is resolved as provided_budget >=
   minimum_required, a missing value read as 0),
   budget_breakdown.budget_status equals it, and
   trip_overview.minimum_budget_required is not None exactly when the status
   is 'insufficient'. *)

\* the status the backend result of the call names, 'sufficient' if none
BackendStatusOf(backend_result) ==
    ValueOr(ValueOr(backend_result, "budget_validation", EmptyDict),
            "status", "sufficient")

\* provided_budget >= minimum_required of the backend result of the call
BackendBudgetCovers(backend_result) ==
    LET v == ValueOr(backend_result, "budget_validation", EmptyDict)
    IN  ValueOr(v, "provided_budget", 0) >= ValueOr(v, "minimum_required", 0)

TransformReturned ==
    /\ Called("transform_backend_response_to_frontend_format")
    /\ ~IsRaise(ret)

C20_TransformBudgetStatus ==
    TransformReturned =>
        LET named == BackendStatusOf(call.backend_result)
            shown == ret.trip_overview.budget_status
        IN  /\ shown \in {"sufficient", "insufficient"}
            /\ named \in {"sufficient", "insufficient"} => shown = named
            /\ named \notin {"sufficient", "insufficient"} =>
                (shown = "sufficient" <=> BackendBudgetCovers(call.backend_result))
            /\ ret.budget_breakdown.budget_status = shown
            /\ (ret.trip_overview.minimum_budget_required # NoneVal)
                    <=> (shown = "insufficient")

\* a status outside the two was resolved to 'insufficient' from the amounts
C20_Witness ==
    /\ TransformReturned
    /\ BackendStatusOf(call.backend_result) = "error"
    /\ "provided_budget" \notin DOMAIN call.backend_result.budget_validation
    /\ ret.trip_overview.budget_status = "insufficient"
    /\ ret.trip_overview.minimum_budget_required # NoneVal

(* C15: TravelPlanningTool.google_search never raises and always returns
   status 'success'; with no valid SERP key (none, the placeholder, or 10
   characters or fewer) it returns the fallback results and issues no HTTP
   request, and when the request or its decoding fails it returns the
   fallback results. *)

\* the key of the tool is absent, the placeholder, or 10 characters or fewer
NoValidSerpKey(key) ==
    \/ key = NoneVal
    \/ key = STR_your_serp_api_key_here
    \/ Len(key) <= 10

IsFallbackData(v) ==
    /\ "source" \in DOMAIN v.search_metadata
    /\ v.search_metadata.source = "fallback_data"

C15_GoogleSearchFallsBack ==
    Called("google_search") =>
        /\ ~IsRaise(ret)
        /\ ret.status = "success"
        /\ NoValidSerpKey(call.self.api_key) =>
            IsFallbackData(ret) /\ http_log = <<>>
        /\ ~NoValidSerpKey(call.self.api_key) =>
            /\ Len(http_log) = 1
            /\ IsRaise(call.outcome) => IsFallbackData(ret)

\* a key of exactly 10 characters: no request; and a valid key whose request
\* failed
C15_Witness ==
    /\ Called("google_search")
    /\ call.self.api_key # NoneVal
    /\ Len(call.self.api_key) = 10
    /\ IsFallbackData(ret)

C15_WitnessRequestFailed ==
    /\ Called("google_search")
    /\ ~NoValidSerpKey(call.self.api_key)
    /\ IsRaise(call.outcome)
    /\ IsFallbackData(ret)

(* C16: WeatherTool.get_forecast asks for the days argument clamped to
   1..16: for every integer days the forecast_days sent equals
   max(1, min(days, 16)). *)

Clamped(days) ==
    LET capped == IF days < 16 THEN days ELSE 16
    IN  IF capped > 1 THEN capped ELSE 1

\* get_forecast was called and issued its data request
ForecastRequested == Called("get_forecast") /\ Len(http_log) = 2

C16_ForecastDaysClamped ==
    ForecastRequested =>
        http_log[2].params.forecast_days = Clamped(call.days)

\* what the code does: the clamp holds for every days but 0, and 0 asks for
\* the 7 days of the default
C16_ForecastDaysOfCode ==
    ForecastRequested =>
        http_log[2].params.forecast_days =
            IF call.days = 0 THEN 7 ELSE Clamped(call.days)

(* C17: get_current_weather, get_forecast and get_air_quality each return a
   dict with status 'success' or 'error' and do not raise on a network
   failure; when the geocoding fails or finds nothing they return 'error'
   with 'Location not found' and issue no data request, and when the data
   request fails they return 'error'. *)

WeatherCalled ==
    call.fn \in {"get_current_weather", "get_forecast", "get_air_quality"}

\* the geocoding request was answered with at least one result
GeocodeFound(geo) ==
    /\ ~IsRaise(geo)
    /\ geo.data.py = "dict"
    /\ "results" \in DOMAIN geo.data.value
    /\ ~IsNone(geo.data.value.results)
    /\ Len(geo.data.value.results.items) > 0

\* the requests issued that are not to the geocoding service
DataRequests ==
    {i \in 1..Len(http_log) : http_log[i].url # "https://geocoding-api.open-meteo.com/v1/search"}

C17_WeatherStatus ==
    WeatherCalled =>
        /\ ~IsRaise(ret)
        /\ ret.status \in {"success", "error"}
        /\ ~GeocodeFound(call.geo) =>
            /\ ret.status = "error"
            /\ ret.message.text = "Location not found"
            /\ DataRequests = {}
        /\ GeocodeFound(call.geo) =>
            /\ Cardinality(DataRequests) = 1
            /\ IsRaise(call.outcome) => ret.status = "error"
            /\ ret.status = "error" =>
                ret.message.text # "Location not found"

\* the geocoding answered an empty result list: no data request was made
C17_Witness ==
    /\ WeatherCalled
    /\ ~IsRaise(call.geo)
    /\ ~GeocodeFound(call.geo)
    /\ ret.status = "error"
    /\ Len(http_log) = 1

(* C19: POST /api/validate-duration never answers with an HTTP error and
   tries its three sources in a fixed order: the AI analysis only when a
   Gemini key is configured, the distance-based calculation when there is no
   key or the AI step raised, the hard-coded defaults (minimum 2 days, all
   four options) only when the distance-based step raised; 'method' names
   the tier that answered. *)

\* one of the two environment variables holds a key
GeminiKeyConfigured ==
    \/ (call.GEMINI_API_KEY # NoneVal /\ call.GEMINI_API_KEY # <<>>)
    \/ (call.GOOGLE_API_KEY # NoneVal /\ call.GOOGLE_API_KEY # <<>>)

Tried(tier) == \E i \in 1..Len(call.tried) : call.tried[i] = tier
RaisedIn(tier) == \E i \in 1..Len(call.raised) : call.raised[i] = tier

\* the tiers tried appear in the order AI, distance, defaults
InTierOrder(tried) ==
    \A i, j \in 1..Len(tried) :
        i < j => <<tried[i], tried[j]>> \in
                    {<<"ai", "distance">>, <<"ai", "hardcoded">>,
                     <<"distance", "hardcoded">>}

MethodOf(tier) ==
    CASE tier = "ai" -> "ai_duration_analysis"
      [] tier = "distance" -> "distance_based_calculation"
      [] tier = "hardcoded" -> "hardcoded_fallback"

PlannerConstructed ==
    call.fn \in {"PersonalizedTripPlanner", "create_trip_planner"}

\* the keys supplied to the construction: the argument and the two variables
SuppliedKeys ==
    {k \in {call.api_key, call.GEMINI_API_KEY, call.GOOGLE_API_KEY} :
        k # NoneVal /\ k # <<>>}

C18_PlannerKey ==
    PlannerConstructed =>
        /\ SuppliedKeys = {} =>
            ret = Raise("ValueError: GEMINI_API_KEY or GOOGLE_API_KEY must be provided")
        /\ SuppliedKeys # {} =>
            /\ ~IsRaise(ret)
            /\ ret.configured \in SuppliedKeys

\* what the code does: no construction raises, and the key configured is
\* the literal whatever was supplied
C18_PlannerKeyOfCode ==
    PlannerConstructed =>
        /\ ~IsRaise(ret)
        /\ ret.configured = LITERAL_API_KEY

(* C21: for a fixed structured request, the agent_response that POST
   /api/plan-trip returns does not depend on the itinerary the LLM produced:
   two agent results that agree on budget_validation and on 'sources' give
   the same agent_response body, and the top-level status of the two
   answers differs only when the status of an agent result is 'error'. *)

\* the request answered is a TripRequest, the agent returned, and the
\* handler answered with a body
StructuredPlanAnswered ==
    /\ Called("plan_trip")
    /\ "agent_result" \in DOMAIN call
    /\ call.user_input.py = "dict"
    /\ ret.status_code = 200

\* the other results the agent can return for the request of the call whose
\* handling returns a body
OtherAnsweredResults ==
    {o \in search_and_respond(call.user_input) :
        ~IsRaise(plan_trip_try(call.user_input, o))}

\* two agent results agree on budget_validation and on 'sources'
AgreeOnBudgetAndSources(r1, r2) ==
    /\ ("budget_validation" \in DOMAIN r1) <=> ("budget_validation" \in DOMAIN r2)
    /\ "budget_validation" \in DOMAIN r1 =>
            r1.budget_validation = r2.budget_validation
    /\ ("sources" \in DOMAIN r1) <=> ("sources" \in DOMAIN r2)
    /\ "sources" \in DOMAIN r1 => r1.sources = r2.sources

StatusIsError(r) == "status" \in DOMAIN r /\ r.status = "error"

C21_AgentResponseIndependentOfItinerary ==
    StructuredPlanAnswered =>
        \A other \in OtherAnsweredResults :
            LET answer == plan_trip_try(call.user_input, other)
            IN  /\ AgreeOnBudgetAndSources(call.agent_result, other) =>
                    answer.agent_response = ret.body.agent_response
                /\ answer.status # ret.body.status =>
                    (StatusIsError(call.agent_result) \/ StatusIsError(other))

\* the agent returned the fallback itinerary while another of its results
\* for the same request, an LLM reply passed through with a day plan and the
\* same budget_validation and no sources, has the status 'error'
C21_Witness ==
    /\ StructuredPlanAnswered
    /\ "status" \in DOMAIN call.agent_result
    /\ call.agent_result.status = "fallback"
    /\ \E other \in OtherAnsweredResults :
        /\ other # call.agent_result
        /\ "daily_itinerary" \in DOMAIN other
        /\ StatusIsError(other)
        /\ AgreeOnBudgetAndSources(call.agent_result, other)
        /\ plan_trip_try(call.user_input, other).status # ret.body.status

====
